---- MODULE Spec2Model ----
(***************************************************************************)
(* Execution-and-decision loop of the Feishu bridge:                        *)
(*   - one subprocess run (IFlowAdapter.executeSkill / execute,             *)
(*     ClaudeAdapter.executePrompt): spawn, timeout timer, close and error  *)
(*     handlers settling one promise;                                       *)
(*   - IFlowAdapter.executeWithRetry / ClaudeAdapter.executeWithRetry;      *)
(*   - EventHandler.handle / processMessage with the processingSessions     *)
(*     guard keyed by sessionIdGenerator.extractSessionId.                  *)
(***************************************************************************)
EXTENDS Integers, Sequences, FiniteSets, TLC

VARIABLES
    runs,                \* SpecRun: one subprocess run per adapter function
    retry,               \* SpecRetry: the frame of one executeWithRetry call
    now,                 \* SpecMsg: Date.now(), in milliseconds
    processingSessions,  \* SpecMsg: EventHandler.processingSessions
    msgs,                \* SpecMsg: one handle() call per incoming event
    sessions,            \* SpecSession: SessionManager.sessions (in memory)
    files,               \* SpecSession: the session files on disk
    pure,                \* SpecSession: per id, the Continue records accepted
                         \* since createSession, or -1 once the session was
                         \* overwritten by updateSession or reloaded
    call,                \* SpecAnalyzer: the last ResultAnalyzer call, its
                         \* arguments and what it returned
    activeSessions,      \* SpecProgress: ProgressManager.activeSessions, the
                         \* entries of the Map in insertion order
    sweeps,              \* SpecProgress: the checkProgress calls
    monitor,             \* SpecMonitor: ProgressManager.enabled and timer,
                         \* and the interval timers of the runtime
    emitted,             \* SpecMonitor: per session, when its last summary
                         \* went to the sender and how long after the one
                         \* before
    service,             \* SpecService: the BridgeService instance and its
                         \* start() and stop() calls
    adds,                \* SpecConcurrent: the updateSession and
                         \* addExecutionRecord calls that may overlap
    batch                \* SpecBatch: the executeBatch call

sessVars == <<sessions, files, pure>>
callVars == <<call>>
monVars == <<monitor, emitted, service>>
progVars == <<activeSessions, sweeps, monVars>>
asyncVars == <<adds, batch>>
otherVars == <<sessVars, callVars, progVars, asyncVars>>
vars == <<runs, retry, now, processingSessions, msgs, otherVars>>

----------------------------------------------------------------------------
(* Bounds *)

MaxRetriesBound == 3     \* largest maxRetries argument tried
MaxMsgs == 2             \* number of incoming message events
MaxTime == 1             \* the clock runs over 0..MaxTime
MaxLoopDepth == 2        \* MAX_LOOP_DEPTH, scaled down from its default 100
MaxHistory == 3          \* most execution records kept, over all sessions
MaxRegistered == 3       \* most entries ever added to the activeSessions Map
MaxClock == 2            \* the clock of SpecMonitor and SpecService runs over
                         \* 0..MaxClock
MaxTimers == 2           \* most interval timers ever created

SessionIds == {"s1", "s2"}

----------------------------------------------------------------------------
(* One subprocess run: the promise built by executeSkill / execute /        *)
(* executePrompt.                                                           *)

\* The three functions that build a run; their bodies differ only in the
\* text of the timeout error.
Fns == {"executeSkill", "execute", "executePrompt"}

\* code passed to the 'close' handler; -1 stands for null (killed by signal)
CloseCodes == {-1, 0, 1}

\* new Error(`... 执行超时 (${this.timeoutPerStep}秒)`)
TimeoutError(fn) ==
    CASE fn = "executeSkill"  -> "Skill timeout"
      [] fn = "execute"       -> "command timeout"
      [] fn = "executePrompt" -> "Claude timeout"

\* the error object handed to the 'error' handler by child_process
LaunchError == "spawn error"
KillError == "kill error"

\* a run before spawn() has been called
NoRun ==
    [fn |-> "execute", spawned |-> FALSE, launchFails |-> FALSE,
     timer |-> "none", kills |-> 0, closed |-> FALSE, errored |-> FALSE,
     state |-> "pending", value |-> <<>>, reason |-> "", first |-> "none",
     code |-> <<>>]

\* (variant: a resolve that overwrites an outcome already set)
ResolveOverwrites(r, v) == [r EXCEPT !.state = "fulfilled", !.value = <<v>>]

\* Promise semantics: resolve and reject act only on a pending promise.
Resolve(r, v) ==
    IF r.state = "pending"
    THEN [r EXCEPT !.state = "fulfilled", !.value = <<v>>]
    ELSE r

Reject(r, e) ==
    IF r.state = "pending"
    THEN [r EXCEPT !.state = "rejected", !.reason = e]
    ELSE r

First(r, ev) == IF r.first = "none" THEN ev ELSE r.first

\* new Promise(...): spawn(), register the handlers, setTimeout(...)
SpawnRun(fn, lf) ==
    [NoRun EXCEPT !.fn = fn, !.spawned = TRUE, !.launchFails = lf,
                  !.timer = "armed"]

\* (variant: the callback kills the child and leaves the promise alone)
OnTimeoutKillOnly(r) ==
    [r EXCEPT !.timer = "fired", !.kills = @ + 1,
              !.first = First(r, "timeout")]

\* the setTimeout callback
OnTimeout(r) ==
    Reject([r EXCEPT !.timer = "fired", !.kills = @ + 1,
                     !.first = First(r, "timeout")],
           TimeoutError(r.fn))

\* (variant: success for every code that is not null)
SuccessNonNull(code) == code # -1

\* result.success: code === 0
Success(code) == code = 0

\* the object built by the 'close' handler
MakeResult(code) == [success |-> Success(code), exitCode |-> code]

\* (variant: the timer is left running)
ClearTimeoutMissing(t) == t

\* clearTimeout(timeout): a fired timer stays fired
ClearTimeout(t) == IF t = "armed" THEN "cleared" ELSE t

\* child.on('close', code => ...)
OnClose(r, code) ==
    Resolve([r EXCEPT !.timer = ClearTimeout(r.timer), !.closed = TRUE,
                      !.first = First(r, "close"), !.code = <<code>>],
            MakeResult(code))

\* (variant: an error handler that resolves with a failed result)
OnErrorResolves(r, e) ==
    Resolve([r EXCEPT !.timer = ClearTimeout(r.timer), !.errored = TRUE,
                      !.first = First(r, "error")],
            MakeResult(-1))

\* child.on('error', error => ...)
OnError(r, e) ==
    Reject([r EXCEPT !.timer = ClearTimeout(r.timer), !.errored = TRUE,
                     !.first = First(r, "error")],
           e)

\* What the runtime can deliver to a spawned run:
\*  - the timer fires while it is armed; a failed spawn emits 'error' on the
\*    next tick, before any timer;
\*  - 'close' is emitted once; after a failed spawn it follows 'error';
\*  - 'error' is emitted once: first of all events when the spawn failed,
\*    or after the timer's kill() when the signal could not be delivered.
CanTimeout(r) == r.spawned /\ r.timer = "armed" /\ (r.launchFails => r.errored)
CanClose(r) == r.spawned /\ ~r.closed /\ (r.launchFails => r.errored)
CanError(r) ==
    /\ r.spawned /\ ~r.errored /\ ~r.closed
    /\ \/ r.launchFails
       \/ r.timer = "fired"
ErrorOf(r) == IF r.launchFails THEN LaunchError ELSE KillError

----------------------------------------------------------------------------
(* States of the frames that are not running *)

IdleRetry ==
    [pc |-> "idle", fn |-> "execute", maxRetries |-> 0, attempt |-> 0, launches |-> 0,
     sleeps |-> <<>>, outcomes |-> <<>>, lastError |-> "",
     ret |-> <<>>, thrown |-> "", run |-> NoRun]

IdleMsg ==
    [pc |-> "idle", chatId |-> "", senderId |-> "", hid |-> <<>>,
     sid |-> <<>>, nResult |-> 0, nError |-> 0, errMsg |-> "",
     run |-> NoRun]

----------------------------------------------------------------------------
(* SpecRun: the three functions, each running one subprocess *)

RunSpawn(fn, lf) ==
    /\ ~runs[fn].spawned
    /\ runs' = [runs EXCEPT ![fn] = SpawnRun(fn, lf)]
    /\ UNCHANGED <<retry, now, processingSessions, msgs, otherVars>>

RunTimeout(fn) ==
    /\ CanTimeout(runs[fn])
    /\ runs' = [runs EXCEPT ![fn] = OnTimeout(@)]
    /\ UNCHANGED <<retry, now, processingSessions, msgs, otherVars>>

RunClose(fn, code) ==
    /\ CanClose(runs[fn])
    /\ runs' = [runs EXCEPT ![fn] = OnClose(@, code)]
    /\ UNCHANGED <<retry, now, processingSessions, msgs, otherVars>>

RunError(fn) ==
    /\ CanError(runs[fn])
    /\ runs' = [runs EXCEPT ![fn] = OnError(@, ErrorOf(@))]
    /\ UNCHANGED <<retry, now, processingSessions, msgs, otherVars>>

\* no ResultAnalyzer call made yet
NoCall == [fn |-> "none"]

\* the checkProgress calls that may overlap
SweepIds == {"t1", "t2"}
SweepOrder == [t \in SweepIds |-> IF t = "t1" THEN 1 ELSE 2]

\* no summary at the sender
NoSummary == [sessionId |-> ""]

\* a checkProgress call not made yet: its captured now, the place of the
\* entry it awaits on, whether that entry is still the Map's, the summary at
\* the sender, and the sends it made with their outcome
IdleSweep == [pc |-> "idle", now |-> 0, idx |-> 0, detached |-> FALSE,
              summary |-> NoSummary, sent |-> <<>>]

\* the updateSession and addExecutionRecord calls that may overlap
AddIds == {"a1", "a2"}

\* a call not made yet: the method (op), the session id and the record or
\* updates it was called with, the content of the file it is writing, the
\* place of that write among the writes issued, and the error it threw
IdleAdd ==
    [pc |-> "idle", op |-> "", id |-> "", arg |-> <<>>, content |-> <<>>,
     seq |-> 0, error |-> ""]

\* an executeBatch call not made yet: its arguments (each command stands
\* for what executeWithRetry does with it), the place of the command the
\* loop is at, and the results array
IdleBatch ==
    [pc |-> "idle", commands |-> <<>>, continueOnError |-> FALSE, i |-> 0,
     results |-> <<>>]

\* ProgressManager after its constructor: config.progress.enabled is read
\* when start() first looks at it, this.timer is null (0), and the runtime
\* holds no interval timer; timers[k] is the time timer k fires next, -1
\* once it is cleared
IdleMonitor == [enabled |-> "unread", timer |-> 0, timers |-> <<>>]

\* no summary of the session has gone to the sender
NoSummaryYet == [last |-> -1, gap |-> -1]

\* BridgeService after its constructor, with no start() or stop() call made
NewService == [isRunning |-> FALSE, start |-> "none", stop |-> "none",
               cleanups |-> 0]

Init ==
    /\ runs = [fn \in Fns |-> NoRun]
    /\ retry = IdleRetry
    /\ now = 0
    /\ processingSessions = {}
    /\ msgs = [m \in 1..MaxMsgs |-> IdleMsg]
    /\ sessions = <<>>
    /\ files = <<>>
    /\ pure = [id \in SessionIds |-> 0]
    /\ call = NoCall
    /\ activeSessions = <<>>
    /\ sweeps = [t \in SweepIds |-> IdleSweep]
    /\ monitor = IdleMonitor
    /\ emitted = [id \in SessionIds |-> NoSummaryYet]
    /\ service = NewService
    /\ adds = [c \in AddIds |-> IdleAdd]
    /\ batch = IdleBatch

NextRun ==
    \/ \E fn \in Fns, lf \in BOOLEAN : RunSpawn(fn, lf)
    \/ \E fn \in Fns : RunTimeout(fn)
    \/ \E fn \in Fns, code \in CloseCodes : RunClose(fn, code)
    \/ \E fn \in Fns : RunError(fn)

SpecRun == Init /\ [][NextRun]_vars

----------------------------------------------------------------------------
(* SpecRetry: executeWithRetry(input, options, maxRetries) of IFlowAdapter  *)
(* (around execute) and of ClaudeAdapter (around executePrompt)             *)

RetryFns == {"execute", "executePrompt"}

\* the factor in this.sleep(1000 * attempt)
RetryBaseMs == 1000

\* (variant: a constant delay)
BackoffFlat(attempt) == RetryBaseMs

\* this.sleep(1000 * attempt)
Backoff(attempt) == RetryBaseMs * attempt

\* (variant: the success test is missing)
RetryReturnsLastOnly(result, attempt, maxRetries) == attempt = maxRetries

\* the try block after the await: return on success, or on the last attempt
RetryReturns(result, attempt, maxRetries) ==
    result.success \/ attempt = maxRetries

\* (variant: the test for the last attempt is off by one)
LastAttemptLate(attempt, maxRetries) == attempt = maxRetries + 1

\* the catch block: if (attempt === maxRetries) throw error
LastAttempt(attempt, maxRetries) == attempt = maxRetries

\* how an attempt ended, for the record of attempts
OutcomeOf(r) ==
    IF r.state = "fulfilled"
    THEN (IF r.value[1].success THEN "ok" ELSE "nonzero")
    ELSE r.reason

\* throw lastError || new Error('执行失败')
LastErrorOr(e) == IF e = "" THEN "exec failed" ELSE e

\* executeWithRetry is called: the loop starts and, when 1 <= maxRetries,
\* the first attempt calls execute, which spawns the subprocess
RetryCall(fn, n, lf) ==
    /\ retry.pc = "idle"
    /\ retry' =
         IF 1 <= n
         THEN [retry EXCEPT !.pc = "exec", !.fn = fn, !.maxRetries = n,
                            !.attempt = 1, !.launches = 1,
                            !.run = SpawnRun(fn, lf)]
         ELSE [retry EXCEPT !.pc = "thrown", !.fn = fn, !.maxRetries = n,
                            !.attempt = 1,
                            !.thrown = LastErrorOr(retry.lastError)]
    /\ UNCHANGED <<runs, now, processingSessions, msgs, otherVars>>

RetryTimeout ==
    /\ CanTimeout(retry.run)
    /\ retry' = [retry EXCEPT !.run = OnTimeout(@)]
    /\ UNCHANGED <<runs, now, processingSessions, msgs, otherVars>>

RetryClose(code) ==
    /\ CanClose(retry.run)
    /\ retry' = [retry EXCEPT !.run = OnClose(@, code)]
    /\ UNCHANGED <<runs, now, processingSessions, msgs, otherVars>>

RetryError ==
    /\ CanError(retry.run)
    /\ retry' = [retry EXCEPT !.run = OnError(@, ErrorOf(@))]
    /\ UNCHANGED <<runs, now, processingSessions, msgs, otherVars>>

\* the await of execute() resumes with the settled promise
RetrySettled ==
    /\ retry.pc = "exec"
    /\ retry.run.state # "pending"
    /\ LET r == retry.run
           rec == [retry EXCEPT !.outcomes = Append(@, OutcomeOf(r))]
       IN retry' =
            IF r.state = "fulfilled"
            THEN IF RetryReturns(r.value[1], retry.attempt, retry.maxRetries)
                 THEN [rec EXCEPT !.pc = "returned", !.ret = r.value]
                 ELSE [rec EXCEPT !.pc = "sleep",
                                  !.sleeps = Append(@, Backoff(retry.attempt))]
            ELSE IF LastAttempt(retry.attempt, retry.maxRetries)
                 THEN [rec EXCEPT !.pc = "thrown", !.lastError = r.reason,
                                  !.thrown = r.reason]
                 ELSE [rec EXCEPT !.pc = "sleep", !.lastError = r.reason,
                                  !.sleeps = Append(@, Backoff(retry.attempt))]
    /\ UNCHANGED <<runs, now, processingSessions, msgs, otherVars>>

\* the sleep ends: attempt++, loop test, next call of execute
RetryWake(lf) ==
    /\ retry.pc = "sleep"
    /\ retry' =
         IF retry.attempt + 1 <= retry.maxRetries
         THEN [retry EXCEPT !.pc = "exec", !.attempt = @ + 1,
                            !.launches = @ + 1,
                            !.run = SpawnRun(retry.fn, lf)]
         ELSE [retry EXCEPT !.pc = "thrown", !.attempt = @ + 1,
                            !.thrown = LastErrorOr(retry.lastError)]
    /\ UNCHANGED <<runs, now, processingSessions, msgs, otherVars>>

NextRetry ==
    \/ \E fn \in RetryFns, n \in 0..MaxRetriesBound, lf \in BOOLEAN :
          RetryCall(fn, n, lf)
    \/ RetryTimeout
    \/ \E code \in CloseCodes : RetryClose(code)
    \/ RetryError
    \/ RetrySettled
    \/ \E lf \in BOOLEAN : RetryWake(lf)

SpecRetry == Init /\ [][NextRetry]_vars

----------------------------------------------------------------------------
(* SpecMsg: EventHandler.handle and processMessage                          *)

Msgs == 1..MaxMsgs
ChatIds == {"oc_a", ""}        \* "" is a missing (falsy) chat id
SenderIds == {"ou_1"}


\* senderId || 'unknown', chatId || 'unknown'
OrUnknown(x) == IF x = "" THEN "unknown" ELSE x

\* md5(`${userId}_${chatIdStr}`).substring(0, 8), kept as the hashed pair
Hash(userId, chatIdStr) == <<userId, chatIdStr>>

\* `session_${hash}_${timestamp}` with timestamp = Date.now().toString(36)
extractSessionId(chatId, senderId, t) ==
    <<"session", Hash(OrUnknown(senderId), OrUnknown(chatId)), t>>

\* (variant: the delete sits at the end of the try block)
ReleaseGuardTryOnly(ps, sessionId, viaCatch) ==
    IF viaCatch THEN ps ELSE ps \ {sessionId}

\* the finally block of processMessage: processingSessions.delete(sessionId)
ReleaseGuard(ps, sessionId, viaCatch) == ps \ {sessionId}

\* Date.now() moves on
Tick ==
    /\ now < MaxTime
    /\ now' = now + 1
    /\ UNCHANGED <<runs, retry, processingSessions, msgs, otherVars>>

\* (variant: the id is added only after a suspension point, so the step of
\* the test leaves processingSessions as it is)
HandleAddsLater(m, chatId, senderId, t2) ==
    /\ msgs[m].pc = "idle"
    /\ \A k \in 1..(m - 1) : msgs[k].pc # "idle"
    /\ t2 \in {now, now + 1} /\ t2 <= MaxTime
    /\ LET hid == extractSessionId(chatId, senderId, now)
           sid == extractSessionId(chatId, senderId, t2)
       IN IF hid \in processingSessions
          THEN /\ msgs' = [msgs EXCEPT ![m].pc = "skipped",
                                       ![m].chatId = chatId,
                                       ![m].senderId = senderId,
                                       ![m].hid = hid]
               /\ UNCHANGED <<now, processingSessions>>
          ELSE /\ msgs' = [msgs EXCEPT ![m].pc = "sendText",
                                       ![m].chatId = chatId,
                                       ![m].senderId = senderId,
                                       ![m].hid = hid, ![m].sid = sid]
               /\ UNCHANGED processingSessions
               /\ now' = t2
    /\ UNCHANGED <<runs, retry, otherVars>>

\* handle(data) for a text message, up to the first await: the guard test
\* with the id computed in handle, and, when it passes, processMessage up to
\* its await of sendTextMessage: the id computed again (at t2, the clock may
\* have moved on between the two calls) and added to processingSessions.
Handle(m, chatId, senderId, t2) ==
    /\ msgs[m].pc = "idle"
    /\ \A k \in 1..(m - 1) : msgs[k].pc # "idle"
    /\ t2 \in {now, now + 1} /\ t2 <= MaxTime
    /\ LET hid == extractSessionId(chatId, senderId, now)
           sid == extractSessionId(chatId, senderId, t2)
       IN IF hid \in processingSessions
          THEN /\ msgs' = [msgs EXCEPT ![m].pc = "skipped",
                                       ![m].chatId = chatId,
                                       ![m].senderId = senderId,
                                       ![m].hid = hid]
               /\ UNCHANGED <<now, processingSessions>>
          ELSE /\ msgs' = [msgs EXCEPT ![m].pc = "sendText",
                                       ![m].chatId = chatId,
                                       ![m].senderId = senderId,
                                       ![m].hid = hid, ![m].sid = sid]
               /\ processingSessions' = processingSessions \cup {sid}
               /\ now' = t2
    /\ UNCHANGED <<runs, retry, otherVars>>

\* sendTextMessage returns: executeSkill is called and spawns the subprocess;
\* or it throws: the catch block calls sendErrorMessage
SendTextDone(m, ok, lf) ==
    /\ msgs[m].pc = "sendText"
    /\ msgs' = IF ok
               THEN [msgs EXCEPT ![m].pc = "exec",
                                 ![m].run = SpawnRun("executeSkill", lf)]
               ELSE [msgs EXCEPT ![m].pc = "sendError",
                                 ![m].nError = @ + 1,
                                 ![m].errMsg = "send failed"]
    /\ UNCHANGED <<runs, retry, now, processingSessions, otherVars>>

\* (variant: whatever settles the run is handed on as a result)
ResumeAnyAsResult(f, r) ==
    IF r.state = "pending" THEN [f EXCEPT !.run = r]
    ELSE [f EXCEPT !.pc = "sendResult", !.nResult = @ + 1, !.run = NoRun]

\* The await of executeSkill resumes in the microtasks of the event that
\* settled the run, before any other event is handled: a result is analysed
\* and handed to sendExecutionResult; a rejection enters the catch block,
\* which calls sendErrorMessage(chatId, error.message). The frame drops the
\* run: later events of the child reach a settled promise and change nothing
\* the frame reads.
Resume(f, r) ==
    IF r.state = "pending" THEN [f EXCEPT !.run = r]
    ELSE IF r.state = "fulfilled"
    THEN [f EXCEPT !.pc = "sendResult", !.nResult = @ + 1, !.run = NoRun]
    ELSE [f EXCEPT !.pc = "sendError", !.nError = @ + 1,
                   !.errMsg = r.reason, !.run = NoRun]

MsgTimeout(m) ==
    /\ msgs[m].pc = "exec"
    /\ CanTimeout(msgs[m].run)
    /\ msgs' = [msgs EXCEPT ![m] = Resume(@, OnTimeout(@.run))]
    /\ UNCHANGED <<runs, retry, now, processingSessions, otherVars>>

MsgClose(m, code) ==
    /\ msgs[m].pc = "exec"
    /\ CanClose(msgs[m].run)
    /\ msgs' = [msgs EXCEPT ![m] = Resume(@, OnClose(@.run, code))]
    /\ UNCHANGED <<runs, retry, now, processingSessions, otherVars>>

MsgError(m) ==
    /\ msgs[m].pc = "exec"
    /\ CanError(msgs[m].run)
    /\ msgs' = [msgs EXCEPT ![m] = Resume(@, OnError(@.run, ErrorOf(@.run)))]
    /\ UNCHANGED <<runs, retry, now, processingSessions, otherVars>>

\* sendExecutionResult returns (analysis.hasProgress is never set, so the
\* finally block follows), or throws into the catch block
SendResultDone(m, ok) ==
    /\ msgs[m].pc = "sendResult"
    /\ IF ok
       THEN /\ msgs' = [msgs EXCEPT ![m].pc = "done"]
            /\ processingSessions' =
                 ReleaseGuard(processingSessions, msgs[m].sid, FALSE)
       ELSE /\ msgs' = [msgs EXCEPT ![m].pc = "sendError",
                                    ![m].nError = @ + 1,
                                    ![m].errMsg = "send failed"]
            /\ UNCHANGED processingSessions
    /\ UNCHANGED <<runs, retry, now, otherVars>>

\* sendErrorMessage returns or throws: the finally block runs either way; a
\* throw is then caught and logged by handle
SendErrorDone(m, ok) ==
    /\ msgs[m].pc = "sendError"
    /\ msgs' = [msgs EXCEPT ![m].pc = IF ok THEN "done" ELSE "threw"]
    /\ processingSessions' =
         ReleaseGuard(processingSessions, msgs[m].sid, TRUE)
    /\ UNCHANGED <<runs, retry, now, otherVars>>

NextMsg ==
    \/ Tick
    \/ \E m \in Msgs, c \in ChatIds, s \in SenderIds, t2 \in 0..MaxTime :
          Handle(m, c, s, t2)
    \/ \E m \in Msgs, ok \in BOOLEAN, lf \in BOOLEAN : SendTextDone(m, ok, lf)
    \/ \E m \in Msgs : MsgTimeout(m)
    \/ \E m \in Msgs, code \in CloseCodes : MsgClose(m, code)
    \/ \E m \in Msgs : MsgError(m)
    \/ \E m \in Msgs, ok \in BOOLEAN : SendResultDone(m, ok)
    \/ \E m \in Msgs, ok \in BOOLEAN : SendErrorDone(m, ok)

SpecMsg == Init /\ [][NextMsg]_vars

----------------------------------------------------------------------------
(* Properties of one subprocess run (SpecRun) *)

\* C4: a run whose timer fires before the process closes yields a failed
\* execution result (fulfilled, success = FALSE) rather than a rejection.
C4_TimeoutYieldsResult ==
    \A fn \in Fns :
        runs[fn].first = "timeout" =>
            /\ runs[fn].state = "fulfilled"
            /\ Len(runs[fn].value) = 1
            /\ ~runs[fn].value[1].success

\* C5: the number of SIGTERM signals of a run is 1 if the timer fired before
\* the process closed or failed to launch, and 0 otherwise; the timer fires
\* at most once and never after a close or launch error cleared it.
C5_KillCount ==
    \A fn \in Fns :
        LET r == runs[fn]
        IN /\ r.kills = (IF r.timer = "fired" THEN 1 ELSE 0)
           /\ (r.first \in {"close", "error"} => r.kills = 0 /\ r.timer = "cleared")
           /\ (r.first = "timeout" <=> r.kills = 1)

C5_Witness ==
    \E fn \in Fns :
        /\ runs[fn].kills = 1 /\ runs[fn].closed
        /\ \E g \in Fns : runs[g].first = "close" /\ runs[g].kills = 0

\* C6: first signal wins: once a run's promise is settled, no later timeout,
\* close or error event changes its state, its result or its error.
C6_FirstSignalWins ==
    [][\A fn \in Fns :
          runs[fn].state # "pending" =>
              /\ runs'[fn].state = runs[fn].state
              /\ runs'[fn].value = runs[fn].value
              /\ runs'[fn].reason = runs[fn].reason]_vars

C6_Witness ==
    \E fn \in Fns :
        /\ runs[fn].first = "timeout" /\ runs[fn].closed
        /\ runs[fn].code = <<0>>
        /\ runs[fn].state = "rejected"
        /\ runs[fn].reason = TimeoutError(fn)

\* C7: a run whose first event is the close of the process is fulfilled with
\* a result carrying the exit code, and success is true iff that code is 0.
C7_CloseResolves ==
    \A fn \in Fns :
        LET r == runs[fn]
        IN r.first = "close" =>
              /\ r.state = "fulfilled"
              /\ r.value = <<[success |-> (r.code[1] = 0),
                             exitCode |-> r.code[1]]>>

C7_Witness ==
    \E fn \in Fns, g \in Fns :
        /\ runs[fn].first = "close" /\ runs[fn].code = <<1>>
        /\ runs[fn].state = "fulfilled" /\ ~runs[fn].value[1].success
        /\ runs[g].first = "close" /\ runs[g].code = <<0>>
        /\ runs[g].value[1].success

----------------------------------------------------------------------------
(* Properties of executeWithRetry (SpecRetry) *)

AllNonZero == \A i \in DOMAIN retry.outcomes : retry.outcomes[i] = "nonzero"

C10_SuccessShortCircuits ==
    \A i \in DOMAIN retry.outcomes :
        retry.outcomes[i] = "ok" =>
            /\ i = Len(retry.outcomes)
            /\ retry.pc = "returned"
            /\ retry.ret = retry.run.value
            /\ retry.ret[1].success
            /\ retry.launches = i
            /\ Len(retry.sleeps) = i - 1

C10_Witness ==
    /\ retry.pc = "returned" /\ retry.maxRetries = 3
    /\ retry.outcomes = <<"nonzero", "ok">>
    /\ retry.launches = 2 /\ retry.sleeps = <<1000>>

\* C11: a launch failure is not retried: once an attempt has failed to
\* launch, no further launch is made and the launch error is thrown.
C11_LaunchFailureNotRetried ==
    \A i \in DOMAIN retry.outcomes :
        retry.outcomes[i] = LaunchError =>
            /\ retry.launches = i
            /\ retry.pc = "thrown"
            /\ retry.thrown = LaunchError

AllTimeouts ==
    \A i \in DOMAIN retry.outcomes : retry.outcomes[i] = TimeoutError(retry.fn)

\* C12: when every attempt times out, the call never throws and, after
\* maxRetries attempts, returns a failed result.
C12_TimeoutsReturnResult ==
    (retry.maxRetries >= 1 /\ AllTimeouts) =>
        /\ retry.pc # "thrown"
        /\ (Len(retry.outcomes) = retry.maxRetries =>
               /\ retry.pc = "returned"
               /\ Len(retry.ret) = 1
               /\ ~retry.ret[1].success)

----------------------------------------------------------------------------
(* Properties of the message flow (SpecMsg) *)

SameConversation(a, b) ==
    /\ msgs[a].chatId = msgs[b].chatId
    /\ msgs[a].senderId = msgs[b].senderId

Handled(m) == msgs[m].pc # "idle"
Admitted(m) == msgs[m].pc \notin {"idle", "skipped"}
InProgress(m) == msgs[m].pc \in {"sendText", "exec", "sendResult", "sendError"}

\* C1: two messages of the same (chatId, senderId) never both have a
\* subprocess execution in flight (both awaiting executeSkill).
C1_OneInFlightPerConversation ==
    \A a \in Msgs, b \in Msgs :
        (a # b /\ SameConversation(a, b)) =>
            ~(msgs[a].pc = "exec" /\ msgs[b].pc = "exec")

\* C2: the session id of a (chatId, senderId) pair is the same whenever it is
\* computed: in handle, in processMessage, and for a later message.
C2_StableSessionId ==
    \A a \in Msgs, b \in Msgs :
        (Handled(a) /\ Handled(b) /\ SameConversation(a, b)) =>
            /\ msgs[a].hid = msgs[b].hid
            /\ (Admitted(a) => msgs[a].sid = msgs[a].hid)

\* C3: processingSessions holds exactly the ids of the processMessage calls
\* in progress: every id is removed when its processing ends, however it
\* ends, so the set is empty when nothing is in progress.
C3_GuardReleased ==
    /\ processingSessions = {msgs[m].sid : m \in {k \in Msgs : InProgress(k)}}
    /\ ((\A m \in Msgs : ~InProgress(m)) => processingSessions = {})

C3_Witness ==
    /\ msgs[1].pc = "threw"
    /\ msgs[2].pc = "exec" /\ SameConversation(1, 2)
    /\ processingSessions = {msgs[2].sid}

\* C8: a launch failure rejects the run with the launch error and gives no
\* result; the message then gets sendErrorMessage with that error and no
\* sendExecutionResult.
C8_LaunchFailure ==
    /\ [](\A m \in Msgs :
            msgs[m].errMsg = LaunchError =>
               /\ msgs[m].pc \in {"sendError", "done", "threw"}
               /\ msgs[m].nError = 1
               /\ msgs[m].nResult = 0)
    /\ [][\A m \in Msgs :
            (/\ msgs[m].pc = "exec" /\ msgs[m].run.launchFails
             /\ msgs'[m] # msgs[m]) =>
                /\ msgs'[m].pc = "sendError"
                /\ msgs'[m].errMsg = LaunchError
                /\ msgs'[m].nError = 1
                /\ msgs'[m].nResult = 0]_vars

C8_Witness ==
    \E m \in Msgs :
        /\ msgs[m].errMsg = LaunchError
        /\ msgs[m].pc = "done" /\ msgs[m].nError = 1 /\ msgs[m].nResult = 0

----------------------------------------------------------------------------
(* ResultAnalyzer.needsIntervention                                         *)

\* confidence is kept in tenths: 0.3 is 3
LowConfidence == 3

Analyses ==
    [hasError : BOOLEAN, needsInput : BOOLEAN, canContinue : BOOLEAN,
     confidence : {0, 2, 4, 6, 8, 10}]

\* (variant: the cap is tested with >)
needsInterventionStrict(analysis, loopDepth) ==
    IF analysis.hasError THEN TRUE
    ELSE IF analysis.needsInput THEN TRUE
    ELSE IF loopDepth > MaxLoopDepth THEN TRUE
    ELSE IF analysis.canContinue /\ analysis.confidence < LowConfidence
         THEN TRUE
    ELSE FALSE

\* needsIntervention(analysis, loopDepth): the chain of early returns
needsIntervention(analysis, loopDepth) ==
    IF analysis.hasError THEN TRUE
    ELSE IF analysis.needsInput THEN TRUE
    ELSE IF loopDepth >= MaxLoopDepth THEN TRUE
    ELSE IF analysis.canContinue /\ analysis.confidence < LowConfidence
         THEN TRUE
    ELSE FALSE

----------------------------------------------------------------------------
(* SpecSession: SessionManager. A session keeps the fields the loop logic   *)
(* reads: id, status, loopDepth, nextPhase, history (nextPhase and          *)
(* loopDepth of each record), updatedAt and lastActivity.                   *)

Null == "null"
Undefined == "undefined"
Phases == {"p1", "p2"}

\* JavaScript truthiness of a string-or-null value
Truthy(x) == x \notin {Null, Undefined, ""}

\* the time of a session object that has no such field
NoTime == -1

\* the object built by createSession
NewSession(id, t) ==
    [id |-> id, status |-> "active", loopDepth |-> 0, nextPhase |-> Null,
     history |-> <<>>, updatedAt |-> t, lastActivity |-> t]

\* One line of the markdown file: its prefix (k) and its value, a string (s)
\* or a number (n).
Line(k, sv, nv) == [k |-> k, s |-> sv, n |-> nv]

RECURSIVE FormatHistory(_)
\* session.history.forEach(...) of formatSessionToMarkdown
FormatHistory(h) ==
    IF h = <<>> THEN <<>>
    ELSE <<Line("record", "", 0)>>
         \o (IF Truthy(h[1].nextPhase)
             THEN <<Line("nextPhase", h[1].nextPhase, 0)>> ELSE <<>>)
         \o <<Line("loopDepth", "", h[1].loopDepth)>>
         \o FormatHistory(Tail(h))

\* formatSessionToMarkdown(session): the lines, in file order
formatSessionToMarkdown(session) ==
    <<Line("title", session.id, 0),
      Line("status", session.status, 0),
      Line("updatedAt", "", session.updatedAt),
      Line("loopDepth", "", session.loopDepth)>>
    \o (IF Truthy(session.nextPhase)
        THEN <<Line("nextPhase", session.nextPhase, 0)>> ELSE <<>>)
    \o <<Line("message", "", 0), Line("history", "", 0)>>
    \o FormatHistory(session.history)

\* the parser's locals: session, inHistory, currentRecord (<<>> is null)
ParseStart ==
    [session |-> [id |-> Undefined, status |-> Undefined, loopDepth |-> 0,
                  nextPhase |-> Undefined, history |-> <<>>,
                  updatedAt |-> NoTime, lastActivity |-> NoTime],
     hasDepth |-> FALSE, inHistory |-> FALSE, cur |-> <<>>]

\* one iteration of the for loop of parseSessionFromMarkdown: the first
\* branch of the else-if chain whose prefix matches takes the line
ParseLine(st, line) ==
    CASE line.k = "title" -> [st EXCEPT !.session.id = line.s]
      [] line.k = "status" -> [st EXCEPT !.session.status = line.s]
      [] line.k = "updatedAt" -> [st EXCEPT !.session.updatedAt = line.n]
      [] line.k = "loopDepth" ->
            [st EXCEPT !.session.loopDepth = line.n, !.hasDepth = TRUE]
      [] line.k = "nextPhase" -> [st EXCEPT !.session.nextPhase = line.s]
      [] line.k = "message" -> [st EXCEPT !.inHistory = FALSE]
      [] line.k = "history" -> [st EXCEPT !.inHistory = TRUE]
      [] line.k = "record" /\ st.inHistory ->
            [st EXCEPT !.session.history = @ \o st.cur,
                       !.cur = <<[nextPhase |-> Null, loopDepth |-> 0]>>]
      [] OTHER -> st

RECURSIVE ParseLines(_, _)
ParseLines(st, lines) ==
    IF lines = <<>> THEN st
    ELSE ParseLines(ParseLine(st, Head(lines)), Tail(lines))

\* parseSessionFromMarkdown(markdown)
parseSessionFromMarkdown(markdown) ==
    LET st == ParseLines(ParseStart, markdown)
    IN [st.session EXCEPT !.history = @ \o st.cur]

\* map.set(key, value)
MapSet(map, key, value) ==
    [k \in DOMAIN map \cup {key} |-> IF k = key THEN value ELSE map[k]]

\* this.sessions after getSession(sessionId): a session found only on disk
\* is parsed and put into the map
SessionsAfterGet(id) ==
    IF id \in DOMAIN sessions THEN sessions
    ELSE IF id \in DOMAIN files
    THEN MapSet(sessions, id, parseSessionFromMarkdown(files[id]))
    ELSE sessions

\* Object.assign(session, updates, {updatedAt, lastActivity})
Assign(session, updates, t) ==
    [f \in DOMAIN session |->
        IF f \in {"updatedAt", "lastActivity"} THEN t
        ELSE IF f \in DOMAIN updates THEN updates[f]
        ELSE session[f]]

\* (variant: the record takes the depth after the increment)
AddRecordDepthAfter(session, record) ==
    LET depth == IF Truthy(record.nextPhase)
                 THEN session.loopDepth + 1 ELSE session.loopDepth
    IN [session EXCEPT
          !.history = Append(@, [nextPhase |-> record.nextPhase,
                                 loopDepth |-> depth]),
          !.loopDepth = depth,
          !.nextPhase = IF Truthy(record.nextPhase)
                        THEN record.nextPhase ELSE @]

\* (variant: the record is stored but the depth is not counted)
AddRecordNoCount(session, record) ==
    [session EXCEPT !.history = Append(@, [nextPhase |-> record.nextPhase,
                                           loopDepth |-> session.loopDepth])]

\* addExecutionRecord: push the record, count an accepted Continue
AddRecord(session, record) ==
    LET pushed == [session EXCEPT
                     !.history = Append(@, [nextPhase |-> record.nextPhase,
                                            loopDepth |-> session.loopDepth])]
    IN IF Truthy(record.nextPhase)
       THEN [pushed EXCEPT !.loopDepth = @ + 1,
                           !.nextPhase = record.nextPhase]
       ELSE pushed

Reloaded(id) == id \notin DOMAIN sessions /\ id \in DOMAIN files

\* the number of execution records a session holds, in memory or on disk
HeldLen(map, id) ==
    IF id \in DOMAIN map THEN Len(map[id].history)
    ELSE IF id \in DOMAIN files
    THEN Cardinality({i \in DOMAIN files[id] : files[id][i].k = "record"})
    ELSE 0

RECURSIVE SumHeld(_, _)
SumHeld(map, ids) ==
    IF ids = {} THEN 0
    ELSE LET id == CHOOSE x \in ids : TRUE
         IN HeldLen(map, id) + SumHeld(map, ids \ {id})

\* createSession(sessionId, event), with its saveSession
createSession(id) ==
    /\ sessions' = MapSet(sessions, id, NewSession(id, now))
    /\ files' = MapSet(files, id,
                       formatSessionToMarkdown(NewSession(id, now)))
    /\ pure' = [pure EXCEPT ![id] = 0]
    /\ UNCHANGED <<runs, retry, now, processingSessions, msgs, callVars, progVars, asyncVars>>

\* updateSession(sessionId, updates): throws when getSession finds nothing,
\* else assigns, stores and saves
updateSession(id, updates) ==
    /\ LET got == SessionsAfterGet(id)
       IN IF id \notin DOMAIN got
          THEN UNCHANGED <<sessions, files, pure>>
          ELSE LET session == Assign(got[id], updates, now)
               IN /\ sessions' = MapSet(got, id, session)
                  /\ files' = MapSet(files, id,
                                     formatSessionToMarkdown(session))
                  /\ pure' = [pure EXCEPT ![id] =
                                IF Reloaded(id) \/ "loopDepth" \in DOMAIN updates
                                THEN -1 ELSE @]
    /\ UNCHANGED <<runs, retry, now, processingSessions, msgs, callVars, progVars, asyncVars>>

\* addExecutionRecord(sessionId, record), with its updateSession(sessionId,
\* session) and saveSession
addExecutionRecord(id, record) ==
    /\ LET got == SessionsAfterGet(id)
       IN IF id \notin DOMAIN got
          THEN UNCHANGED <<sessions, files, pure>>
          ELSE /\ SumHeld(got, SessionIds) < MaxHistory
               /\ LET added == AddRecord(got[id], record)
                      session == Assign(added, added, now)
                  IN /\ sessions' = MapSet(got, id, session)
                     /\ files' = MapSet(files, id,
                                        formatSessionToMarkdown(session))
                     /\ pure' = [pure EXCEPT ![id] =
                                   IF Reloaded(id) \/ @ < 0 THEN -1
                                   ELSE IF Truthy(record.nextPhase)
                                        THEN @ + 1 ELSE @]
    /\ UNCHANGED <<runs, retry, now, processingSessions, msgs, callVars, progVars, asyncVars>>

\* the process restarts: the in-memory map is lost, the files stay
Restart ==
    /\ sessions # <<>>
    /\ sessions' = <<>>
    /\ UNCHANGED <<files, pure>>
    /\ UNCHANGED <<runs, retry, now, processingSessions, msgs, callVars, progVars, asyncVars>>

\* the updates objects tried: none, a status, a loop depth
Updates ==
    {<<>>, [status |-> "completed"], [loopDepth |-> 0]}

RecordInputs == [nextPhase : {Null} \cup Phases]

NextSession ==
    \/ \E id \in SessionIds : createSession(id)
    \/ \E id \in SessionIds, u \in Updates : updateSession(id, u)
    \/ \E id \in SessionIds, r \in RecordInputs : addExecutionRecord(id, r)
    \/ Restart

SpecSession == Init /\ [][NextSession]_vars

----------------------------------------------------------------------------
(* Properties of the session store (SpecSession) *)

\* C13: in every reachable state, every session's loopDepth is at most the
\* configured maximum.
C13_LoopDepthCapped ==
    \A id \in DOMAIN sessions : sessions[id].loopDepth <= MaxLoopDepth

\* C14: a session's loopDepth never decreases, and it changes only by an
\* addExecutionRecord whose record carries a nextPhase, by exactly 1 (a
\* createSession on the id starts a new session and is not counted).
C14_LoopDepthMonotone ==
    [][\A id \in DOMAIN sessions \cap DOMAIN sessions' :
          LET old == sessions[id]
              new == sessions'[id]
          IN (new.history = <<>> /\ old.history # <<>>) \/
             \/ new.loopDepth = old.loopDepth
             \/ /\ new.loopDepth = old.loopDepth + 1
                /\ Len(new.history) = Len(old.history) + 1
                /\ Truthy(new.history[Len(new.history)].nextPhase)]_vars

\* C15: once MaxLoopDepth Continue results have been recorded for a session
\* since its creation, needsIntervention is true for the session's loopDepth
\* whatever the analysis says.
C15_EscalationAtCap ==
    \A id \in DOMAIN sessions :
        pure[id] >= MaxLoopDepth =>
            \A a \in Analyses : needsIntervention(a, sessions[id].loopDepth)

C15_Witness ==
    \E id \in DOMAIN sessions :
        /\ pure[id] = MaxLoopDepth
        /\ sessions[id].loopDepth = MaxLoopDepth
        /\ Len(sessions[id].history) = MaxLoopDepth

----------------------------------------------------------------------------
(* SpecAnalyzer: the ResultAnalyzer functions applied to drawn arguments    *)

\* the loop depths tried: below, at and above the cap
LoopDepths == 0..(MaxLoopDepth + 1)

\* one call needsIntervention(analysis, loopDepth); a behaviour makes one
\* call, since no call depends on those before it
CallNeedsIntervention(analysis, loopDepth) ==
    /\ call = NoCall
    /\ call' = [fn |-> "needsIntervention", analysis |-> analysis,
                loopDepth |-> loopDepth,
                returned |-> needsIntervention(analysis, loopDepth)]
    /\ UNCHANGED <<runs, retry, now, processingSessions, msgs, sessVars, progVars, asyncVars>>

\* C16: needsIntervention returns true exactly when hasError, or needsInput,
\* or loopDepth >= maxLoopDepth, or canContinue with confidence below 0.3.
C16_InterventionIff ==
    call.fn = "needsIntervention" =>
        (call.returned <=>
            \/ call.analysis.hasError
            \/ call.analysis.needsInput
            \/ call.loopDepth >= MaxLoopDepth
            \/ call.analysis.canContinue /\ call.analysis.confidence < 3)

\* an input flag alone, under the cap and with full confidence
C16_Witness ==
    /\ call.fn = "needsIntervention"
    /\ call.analysis.needsInput /\ ~call.analysis.hasError
    /\ call.loopDepth < MaxLoopDepth
    /\ call.analysis.canContinue /\ call.analysis.confidence = 10
    /\ call.returned

----------------------------------------------------------------------------
(* ResultAnalyzer.analyze. A text is a sequence of characters, each a        *)
(* one-character string (a character outside ASCII is written by its code   *)
(* point, "U5B8C"). A pattern is a sequence of characters, matched without   *)
(* regard to case (flag i), and of the items "S*" for \s*, "S+" for \s+ and  *)
(* "[:]" for the class of the two colons.                                    *)

UpperCase ==
    <<"A", "B", "C", "D", "E", "F", "G", "H", "I", "J", "K", "L", "M",
      "N", "O", "P", "Q", "R", "S", "T", "U", "V", "W", "X", "Y", "Z">>

LowerCase ==
    <<"a", "b", "c", "d", "e", "f", "g", "h", "i", "j", "k", "l", "m",
      "n", "o", "p", "q", "r", "s", "t", "u", "v", "w", "x", "y", "z">>

toLowerCase(c) ==
    IF \E i \in DOMAIN UpperCase : UpperCase[i] = c
    THEN LowerCase[CHOOSE i \in DOMAIN UpperCase : UpperCase[i] = c]
    ELSE c

\* the characters \s matches and trim() removes
IsSpace(c) == c \in {" ", "\t", "\n", "\r"}

\* the two colons of [:：]
Colons == {":", "UFF1A"}

MaxOf(S) == CHOOSE x \in S : \A y \in S : y <= x

\* the number of whitespace characters of text from position i on
SpaceRun(text, i) ==
    MaxOf({k \in 0..(Len(text) + 1 - i) :
            \A j \in i..(i + k - 1) : IsSpace(text[j])})

\* the positions right after a match of pattern pat that starts at i
RECURSIVE Ends(_, _, _)
Ends(text, i, pat) ==
    IF pat = <<>> THEN {i}
    ELSE LET h == Head(pat)
             rest == Tail(pat)
         IN CASE h = "S*" ->
                   UNION {Ends(text, i + k, rest) :
                             k \in 0..SpaceRun(text, i)}
              [] h = "S+" ->
                   UNION {Ends(text, i + k, rest) :
                             k \in 1..SpaceRun(text, i)}
              [] h = "[:]" ->
                   IF i <= Len(text) /\ text[i] \in Colons
                   THEN Ends(text, i + 1, rest) ELSE {}
              [] OTHER ->
                   IF i <= Len(text) /\ toLowerCase(text[i]) = toLowerCase(h)
                   THEN Ends(text, i + 1, rest) ELSE {}

\* pattern.test(text) for a pattern that is the alternation of words
Test(text, words) ==
    \E i \in 1..(Len(text) + 1), w \in words : Ends(text, i, w) # {}

\* /\?$/.test(text)
EndsWithQuestion(text) == text # <<>> /\ text[Len(text)] = "?"

\* the end of the line that holds position i
LineEnd(text, i) ==
    MaxOf({j \in (i - 1)..Len(text) : \A k \in i..j : text[k] # "\n"})

\* \s*([^\n]+) from position e: \s* takes as many characters as leave one
\* character of the line for the group; 0 when the group cannot match
CaptureStart(text, e) ==
    LET ks == {k \in 0..SpaceRun(text, e) :
                  e + k <= Len(text) /\ text[e + k] # "\n"}
    IN IF ks = {} THEN 0 ELSE e + MaxOf(ks)

\* the matches of one next-phase pattern: <<start, alternative, capture
\* start>> for every start position and alternative of the label
LabelMatches(text, labels) ==
    {m \in (1..(Len(text) + 1)) \X (DOMAIN labels) \X (1..Len(text)) :
        \E e \in Ends(text, m[1], labels[m[2]]) :
            CaptureStart(text, e) = m[3]}

\* text.match(pattern): <<>> for null, else <<match[1]>>; the leftmost
\* start wins, and at that start the first alternative that matches
Match(text, labels) ==
    LET ms == LabelMatches(text, labels)
    IN IF ms = {} THEN <<>>
       ELSE LET m == CHOOSE x \in ms :
                        \A y \in ms :
                            \/ x[1] < y[1]
                            \/ x[1] = y[1] /\ x[2] < y[2]
                            \/ x[1] = y[1] /\ x[2] = y[2] /\ x[3] >= y[3]
            IN <<SubSeq(text, m[3], LineEnd(text, m[3]))>>

\* String.prototype.trim
trim(text) ==
    LET keep == {i \in DOMAIN text : ~IsSpace(text[i])}
    IN IF keep = {} THEN <<>>
       ELSE SubSeq(text,
                   CHOOSE i \in keep : \A j \in keep : i <= j, MaxOf(keep))

\* the starts of the pieces of text.split('\n')
LineStarts(text) ==
    {1} \cup {i + 1 : i \in {j \in DOMAIN text : text[j] = "\n"}}

\* the last of the lines of text that is not blank, trimmed; <<>> for none
LastLine(text) ==
    LET starts == {s \in LineStarts(text) :
                      trim(SubSeq(text, s, LineEnd(text, s))) # <<>>}
    IN IF starts = {} THEN <<>>
       ELSE <<trim(SubSeq(text, MaxOf(starts), LineEnd(text, MaxOf(starts))))>>

\* completionPatterns: the alternatives of the three patterns
completionWords ==
    {
     <<"U5B8C", "U6210">>,
     <<"c", "o", "m", "p", "l", "e", "t", "e", "d">>,
     <<"d", "o", "n", "e">>,
     <<"f", "i", "n", "i", "s", "h", "e", "d">>,
     <<"s", "u", "c", "c", "e", "s", "s">>,
     <<"U4EFB", "U52A1", "U7ED3", "U675F">>,
     <<"t", "a", "s", "k", "S+", "c", "o", "m", "p", "l", "e", "t", "e", "d">>,
     <<"t", "a", "s", "k", "S+", "d", "o", "n", "e">>,
     <<"U6CA1", "U6709", "U4E0B", "U4E00", "U9636", "U6BB5">>,
     <<"n", "o", "S+", "n", "e", "x", "t", "S+", "p", "h", "a", "s", "e">>,
     <<"n", "o", "S+", "n", "e", "x", "t", "S+", "s", "t", "e", "p">>
    }

\* errorPatterns: the alternatives of the two patterns
errorWords ==
    {
     <<"U9519", "U8BEF">>,
     <<"e", "r", "r", "o", "r">>,
     <<"f", "a", "i", "l", "e", "d">>,
     <<"f", "a", "i", "l", "u", "r", "e">>,
     <<"U5F02", "U5E38">>,
     <<"e", "x", "c", "e", "p", "t", "i", "o", "n">>,
     <<"c", "r", "a", "s", "h">>
    }

\* inputPatterns: the alternatives of the first two patterns
inputWords ==
    {
     <<"U8BF7", "U8F93", "U5165">>,
     <<"p", "l", "e", "a", "s", "e", "S+", "i", "n", "p", "u", "t">>,
     <<"e", "n", "t", "e", "r", "S+", "y", "o", "u", "r">>,
     <<"U7B49", "U5F85">>,
     <<"w", "a", "i", "t", "i", "n", "g">>,
     <<"a", "w", "a", "i", "t", "i", "n", "g">>
    }

\* the keyword test of calculateConfidence
continueWords ==
    {
     <<"U7EE7", "U7EED">>,
     <<"U4E0B", "U4E00", "U6B65">>,
     <<"n", "e", "x", "t">>,
     <<"c", "o", "n", "t", "i", "n", "u", "e">>
    }

\* nextPhasePatterns, in order: for each pattern the alternatives of its
\* label, in order, up to the colon; every pattern ends with \s*([^\n]+)
nextPhasePatterns ==
    <<
     <<<<"U4E0B", "U4E00", "U9636", "U6BB5", "[:]">>,
       <<"n", "e", "x", "t", "S*", "p", "h", "a", "s", "e", "[:]">>,
       <<"n", "e", "x", "t", "S*", "s", "t", "e", "p", "[:]">>>>,
     <<<<"U9636", "U6BB5", "U76EE", "U6807", "[:]">>,
       <<"p", "h", "a", "s", "e", "S*", "g", "o", "a", "l", "[:]">>,
       <<"s", "t", "e", "p", "S*", "g", "o", "a", "l", "[:]">>>>,
     <<<<"U7EE7", "U7EED", "[:]">>,
       <<"c", "o", "n", "t", "i", "n", "u", "e", "[:]">>>>,
     <<<<"N", "E", "X", "T", "_", "P", "H", "A", "S", "E", ":">>>>,
     <<<<"N", "E", "X", "T", "_", "G", "O", "A", "L", ":">>>>
    >>

\* the outputs tried
Outputs ==
    <<
     \* 'NEXT_PHASE: Deploy to staging'
     <<"N", "E", "X", "T", "_", "P", "H", "A", "S", "E", ":", " ", "D",
       "e", "p", "l", "o", "y", " ", "t", "o", " ", "s", "t", "a", "g",
       "i", "n", "g">>,
     \* 'build ok\nNEXT_PHASE: Deploy to staging\n'
     <<"b", "u", "i", "l", "d", " ", "o", "k", "\n", "N", "E", "X", "T",
       "_", "P", "H", "A", "S", "E", ":", " ", "D", "e", "p", "l", "o",
       "y", " ", "t", "o", " ", "s", "t", "a", "g", "i", "n", "g", "\n">>,
     \* 'all done\nNEXT_PHASE: Deploy to staging'
     <<"a", "l", "l", " ", "d", "o", "n", "e", "\n", "N", "E", "X", "T",
       "_", "P", "H", "A", "S", "E", ":", " ", "D", "e", "p", "l", "o",
       "y", " ", "t", "o", " ", "s", "t", "a", "g", "i", "n", "g">>,
     \* 'NEXT_PHASE: Deploy to staging\nunsuccessful'
     <<"N", "E", "X", "T", "_", "P", "H", "A", "S", "E", ":", " ", "D",
       "e", "p", "l", "o", "y", " ", "t", "o", " ", "s", "t", "a", "g",
       "i", "n", "g", "\n", "u", "n", "s", "u", "c", "c", "e", "s", "s",
       "f", "u", "l">>,
     \* 'phase goal: compile the sources'
     <<"p", "h", "a", "s", "e", " ", "g", "o", "a", "l", ":", " ", "c",
       "o", "m", "p", "i", "l", "e", " ", "t", "h", "e", " ", "s", "o",
       "u", "r", "c", "e", "s">>,
     \* '\u9636\u6bb5\u76ee\u6807: build'
     <<"U9636", "U6BB5", "U76EE", "U6807", ":", " ", "b", "u", "i", "l",
       "d">>,
     \* '\u7ee7\u7eed: go'
     <<"U7EE7", "U7EED", ":", " ", "g", "o">>,
     \* 'next step: run tests'
     <<"n", "e", "x", "t", " ", "s", "t", "e", "p", ":", " ", "r", "u",
       "n", " ", "t", "e", "s", "t", "s">>,
     \* 'NEXT_GOAL: ship it'
     <<"N", "E", "X", "T", "_", "G", "O", "A", "L", ":", " ", "s", "h",
       "i", "p", " ", "i", "t">>,
     \* 'NEXT_PHASE:  '
     <<"N", "E", "X", "T", "_", "P", "H", "A", "S", "E", ":", " ", " ">>,
     \* 'NEXT_PHASE:\nverify'
     <<"N", "E", "X", "T", "_", "P", "H", "A", "S", "E", ":", "\n", "v",
       "e", "r", "i", "f", "y">>,
     \* '\u4e0b\u4e00\u9636\u6bb5\uff1a\u90e8\u7f72\nnext phase: write the docs'
     <<"U4E0B", "U4E00", "U9636", "U6BB5", "UFF1A", "U90E8", "U7F72", "\n",
       "n", "e", "x", "t", " ", "p", "h", "a", "s", "e", ":", " ", "w",
       "r", "i", "t", "e", " ", "t", "h", "e", " ", "d", "o", "c", "s">>,
     \* 'running the build'
     <<"r", "u", "n", "n", "i", "n", "g", " ", "t", "h", "e", " ", "b",
       "u", "i", "l", "d">>,
     \* 'ok'
     <<"o", "k">>,
     \* 'build failed'
     <<"b", "u", "i", "l", "d", " ", "f", "a", "i", "l", "e", "d">>,
     \* 'step 1\n\n  lint  \n \n'
     <<"s", "t", "e", "p", " ", "1", "\n", "\n", " ", " ", "l", "i", "n",
       "t", " ", " ", "\n", " ", "\n">>,
     \* 'which file?'
     <<"w", "h", "i", "c", "h", " ", "f", "i", "l", "e", "?">>,
     \* 'waiting\nbuild'
     <<"w", "a", "i", "t", "i", "n", "g", "\n", "b", "u", "i", "l", "d">>,
     \* 'error: x\nplease input name'
     <<"e", "r", "r", "o", "r", ":", " ", "x", "\n", "p", "l", "e", "a",
       "s", "e", " ", "i", "n", "p", "u", "t", " ", "n", "a", "m", "e">>,
     \* 'task completed'
     <<"t", "a", "s", "k", " ", "c", "o", "m", "p", "l", "e", "t", "e",
       "d">>,
     \* ''
     <<>>,
     \* '\n'
     <<"\n">>,
     \* 'phase goal: build      '
     <<"p", "h", "a", "s", "e", " ", "g", "o", "a", "l", ":", " ", "b",
       "u", "i", "l", "d", " ", " ", " ", " ", " ", " ">>,
     \* 'phase goal: pack\nnext step: ship'
     <<"p", "h", "a", "s", "e", " ", "g", "o", "a", "l", ":", " ", "p",
       "a", "c", "k", "\n", "n", "e", "x", "t", " ", "s", "t", "e", "p",
       ":", " ", "s", "h", "i", "p">>,
     \* 'done, but 2 tests failed'
     <<"d", "o", "n", "e", ",", " ", "b", "u", "t", " ", "2", " ", "t",
       "e", "s", "t", "s", " ", "f", "a", "i", "l", "e", "d">>,
     \* 'which file?\n'
     <<"w", "h", "i", "c", "h", " ", "f", "i", "l", "e", "?", "\n">>
    >>

checkCompletion(output) == Test(output, completionWords)

checkError(output) == Test(output, errorWords)

\* (variant: the question-mark pattern is left out)
checkInputWordsOnly(output) == Test(output, inputWords)

checkInput(output) == Test(output, inputWords) \/ EndsWithQuestion(output)

\* (variant: the last of the patterns that match supplies the phase)
extractNextPhaseLastWins(output) ==
    LET hits == {p \in DOMAIN nextPhasePatterns :
                    Match(output, nextPhasePatterns[p]) # <<>>}
        lastLine == LastLine(output)
    IN IF hits # {}
       THEN Match(output, nextPhasePatterns[CHOOSE p \in hits :
                                               \A r \in hits : p >= r])
       ELSE IF lastLine # <<>>
               /\ ~checkCompletion(lastLine[1]) /\ ~checkError(lastLine[1])
       THEN lastLine
       ELSE <<>>

\* extractNextPhase(output): <<>> for null, else <<the phase>>
extractNextPhase(output) ==
    LET hits == {p \in DOMAIN nextPhasePatterns :
                    Match(output, nextPhasePatterns[p]) # <<>>}
        lastLine == LastLine(output)
    IN IF hits # {}
       THEN Match(output, nextPhasePatterns[CHOOSE p \in hits :
                                               \A r \in hits : p <= r])
       ELSE IF lastLine # <<>>
               /\ ~checkCompletion(lastLine[1]) /\ ~checkError(lastLine[1])
       THEN lastLine
       ELSE <<>>

\* the length above which a phase counts as rich in content
RichLength == 10

\* the three terms of the confidence, in tenths
MarkerTerm == 6
LengthTerm == 2
KeywordTerm == 2

\* calculateConfidence(output, nextPhase), in tenths
calculateConfidence(output, nextPhase) ==
    LET sum == (IF \E p \in DOMAIN nextPhasePatterns :
                      Match(output, nextPhasePatterns[p]) # <<>>
                THEN MarkerTerm ELSE 0)
               + (IF Len(nextPhase) > RichLength THEN LengthTerm ELSE 0)
               + (IF Test(output, continueWords) THEN KeywordTerm ELSE 0)
    IN IF sum < 10 THEN sum ELSE 10

\* the analysis analyze starts from
NoAnalysis ==
    [canContinue |-> FALSE, nextPhase |-> <<>>, isComplete |-> FALSE,
     hasError |-> FALSE, needsInput |-> FALSE, summary |-> "",
     confidence |-> 0]

\* the first line of generateSummary
generateSummary(analysis) ==
    IF analysis.hasError THEN "error"
    ELSE IF analysis.isComplete THEN "complete"
    ELSE "running"

\* (variant: the next phase is extracted whether or not the task is complete)
analyzeAlwaysExtracts(output) ==
    IF output = <<>> THEN NoAnalysis
    ELSE LET flags == [NoAnalysis EXCEPT
                           !.isComplete = checkCompletion(output),
                           !.hasError = checkError(output),
                           !.needsInput = checkInput(output)]
             nextPhase == extractNextPhase(output)
             phased == IF nextPhase # <<>> /\ nextPhase[1] # <<>>
                       THEN [flags EXCEPT
                                !.nextPhase = <<trim(nextPhase[1])>>,
                                !.canContinue = TRUE,
                                !.confidence =
                                    calculateConfidence(output, nextPhase[1])]
                       ELSE flags
         IN [phased EXCEPT !.summary = generateSummary(phased)]

\* analyze(result) for a result whose output is the text given; the empty
\* text is falsy and returns the initial analysis
analyze(output) ==
    IF output = <<>> THEN NoAnalysis
    ELSE LET flags == [NoAnalysis EXCEPT
                           !.isComplete = checkCompletion(output),
                           !.hasError = checkError(output),
                           !.needsInput = checkInput(output)]
             nextPhase == IF flags.isComplete THEN <<>>
                          ELSE extractNextPhase(output)
             phased == IF nextPhase # <<>> /\ nextPhase[1] # <<>>
                       THEN [flags EXCEPT
                                !.nextPhase = <<trim(nextPhase[1])>>,
                                !.canContinue = TRUE,
                                !.confidence =
                                    calculateConfidence(output, nextPhase[1])]
                       ELSE flags
         IN [phased EXCEPT !.summary = generateSummary(phased)]

\* one call analyze({output})
CallAnalyze(output) ==
    /\ call = NoCall
    /\ call' = [fn |-> "analyze", output |-> output,
                returned |-> analyze(output)]
    /\ UNCHANGED <<runs, retry, now, processingSessions, msgs, sessVars, progVars, asyncVars>>

\* one call extractNextPhase(output)
CallExtractNextPhase(output) ==
    /\ call = NoCall
    /\ call' = [fn |-> "extractNextPhase", output |-> output,
                returned |-> extractNextPhase(output)]
    /\ UNCHANGED <<runs, retry, now, processingSessions, msgs, sessVars, progVars, asyncVars>>

NextAnalyzer ==
    \/ \E a \in Analyses, d \in LoopDepths : CallNeedsIntervention(a, d)
    \/ \E i \in DOMAIN Outputs : CallAnalyze(Outputs[i])
    \/ \E i \in DOMAIN Outputs : CallExtractNextPhase(Outputs[i])

SpecAnalyzer == Init /\ [][NextAnalyzer]_vars

----------------------------------------------------------------------------
(* Properties of ResultAnalyzer.analyze (SpecAnalyzer) *)

\* some labeled next-phase marker matches the text
HasMarker(text) ==
    \E p \in DOMAIN nextPhasePatterns :
        Match(text, nextPhasePatterns[p]) # <<>>

\* C17: when a completion pattern matches anywhere in the output, analyze
\* returns isComplete = true, canContinue = false, nextPhase = null and
\* confidence = 0, whatever marker the output also holds.
C17_CompletedSuppressesContinue ==
    (call.fn = "analyze" /\ Test(call.output, completionWords)) =>
        /\ call.returned.isComplete
        /\ ~call.returned.canContinue
        /\ call.returned.nextPhase = <<>>
        /\ call.returned.confidence = 0

C17_Witness ==
    /\ call.fn = "analyze"
    /\ Test(call.output, completionWords)
    /\ HasMarker(call.output)
    /\ call.returned.isComplete /\ ~call.returned.canContinue

MarkerLine ==
    <<"N", "E", "X", "T", "_", "P", "H", "A", "S", "E", ":", " ", "D", "e",
      "p", "l", "o", "y", " ", "t", "o", " ", "s", "t", "a", "g", "i", "n",
      "g">>

DeployToStaging ==
    <<"D", "e", "p", "l", "o", "y", " ", "t", "o", " ", "s", "t", "a", "g",
      "i", "n", "g">>

\* the lines of the text
Lines(text) ==
    {SubSeq(text, s, LineEnd(text, s)) : s \in LineStarts(text)}

\* C18: for an output that holds the line NEXT_PHASE: Deploy to staging, no
\* completion keyword and no continuation keyword on any other line, analyze
\* returns canContinue = true, nextPhase = Deploy to staging and confidence
\* exactly 0.8.
C18_MarkerConfidence ==
    (/\ call.fn = "analyze"
     /\ MarkerLine \in Lines(call.output)
     /\ ~Test(call.output, completionWords)
     /\ \A line \in Lines(call.output) \ {MarkerLine} :
            ~Test(line, continueWords)) =>
        /\ call.returned.canContinue
        /\ call.returned.nextPhase = <<DeployToStaging>>
        /\ call.returned.confidence = 8

----------------------------------------------------------------------------
(* SpecProgress: ProgressManager. activeSessions is the Map as its list of  *)
(* entries in insertion order: delete empties the entry's place, set on a   *)
(* new key appends, set on a present key replaces the value in place, and   *)
(* an iterator walks the places by index. An entry keeps lastSummaryTime,   *)
(* loopCount and lastPhase; chatId, startTime and the formatted duration    *)
(* of the summary are left out.                                             *)

\* the configured interval, in clock steps
Interval == 1

\* the place of a deleted entry
Empty == [deleted |-> TRUE]

\* the place of the key in the Map, 0 when absent
PlaceOf(map, sessionId) ==
    IF \E i \in DOMAIN map : map[i] # Empty /\ map[i].sessionId = sessionId
    THEN CHOOSE i \in DOMAIN map :
             map[i] # Empty /\ map[i].sessionId = sessionId
    ELSE 0

\* a running sweep loses the entry it awaits on when the entry is deleted
\* or replaced
Detach(fs, place) ==
    [t \in SweepIds |->
        IF fs[t].pc = "await" /\ fs[t].idx = place
        THEN [fs[t] EXCEPT !.detached = TRUE] ELSE fs[t]]

\* registerSession(sessionId, chatId)
registerSession(sessionId) ==
    LET place == PlaceOf(activeSessions, sessionId)
        entry == [sessionId |-> sessionId, lastSummaryTime |-> now,
                  loopCount |-> 0, lastPhase |-> Null]
    IN /\ IF place = 0
          THEN /\ Len(activeSessions) < MaxRegistered
               /\ activeSessions' = Append(activeSessions, entry)
               /\ UNCHANGED sweeps
          ELSE /\ activeSessions' = [activeSessions EXCEPT ![place] = entry]
               /\ sweeps' = Detach(sweeps, place)
       /\ UNCHANGED <<runs, retry, now, processingSessions, msgs,
                      sessVars, callVars, monVars, asyncVars>>

\* unregisterSession(sessionId)
unregisterSession(sessionId) ==
    LET place == PlaceOf(activeSessions, sessionId)
    IN /\ place # 0
       /\ activeSessions' = [activeSessions EXCEPT ![place] = Empty]
       /\ sweeps' = Detach(sweeps, place)
       /\ UNCHANGED <<runs, retry, now, processingSessions, msgs,
                      sessVars, callVars, monVars, asyncVars>>

\* the sessionData objects tried
SessionData == {[loopCount |-> 1, nextPhase |-> "p1"], [loopCount |-> 0]}

\* updateProgress(sessionId, sessionData)
updateProgress(sessionId, sessionData) ==
    LET place == PlaceOf(activeSessions, sessionId)
    IN /\ place # 0
       /\ activeSessions' =
              [activeSessions EXCEPT
                  ![place].loopCount = sessionData.loopCount,
                  ![place].lastPhase =
                      IF "nextPhase" \in DOMAIN sessionData
                         /\ Truthy(sessionData.nextPhase)
                      THEN sessionData.nextPhase ELSE Null]
       /\ UNCHANGED <<runs, retry, now, processingSessions, msgs,
                      sessVars, callVars, monVars, sweeps, asyncVars>>

\* (variant: a summary is due only after more than the interval)
IsDueStrict(progress, t) == t - progress.lastSummaryTime > Interval

\* now - progress.lastSummaryTime >= this.interval
IsDue(progress, t) == t - progress.lastSummaryTime >= Interval

\* the summary object of sendProgressSummary
Summary(progress) ==
    [sessionId |-> progress.sessionId,
     currentPhase |-> IF Truthy(progress.lastPhase) THEN progress.lastPhase
                      ELSE "running",
     loopCount |-> progress.loopCount]

\* the for loop of checkProgress from place `from` on: up to the await of
\* the first due entry, whose summary is handed to the sender, or to the end
Advance(f, map, from) ==
    LET due == {i \in from..Len(map) : map[i] # Empty /\ IsDue(map[i], f.now)}
    IN IF due = {}
       THEN [f EXCEPT !.pc = "done", !.now = 0, !.idx = 0,
                      !.detached = FALSE, !.summary = NoSummary]
       ELSE LET i == CHOOSE x \in due : \A y \in due : x <= y
            IN [f EXCEPT !.pc = "await", !.idx = i, !.detached = FALSE,
                         !.summary = Summary(map[i]),
                         !.sent = Append(@, [sessionId |-> map[i].sessionId,
                                             ok |-> "pending"])]

\* the calls that have returned or were never made
Free(fs) == {t \in SweepIds : fs[t].pc \in {"idle", "done"}}

\* checkProgress(), up to its first await or its end; the call takes the
\* first free frame
Sweep(t) ==
    /\ t \in Free(sweeps)
    /\ \A u \in Free(sweeps) : SweepOrder[t] <= SweepOrder[u]
    /\ sweeps' = [sweeps EXCEPT ![t] =
                     Advance([IdleSweep EXCEPT !.now = now],
                             activeSessions, 1)]
    /\ UNCHANGED activeSessions

\* a checkProgress() call made by the environment
checkProgress(t) ==
    /\ Sweep(t)
    /\ UNCHANGED <<runs, retry, now, processingSessions, msgs,
                   sessVars, callVars, monVars, asyncVars>>

\* (variant: no try/catch around the send)
sendProgressSummaryUncaught(ok) == IF ok THEN "returned" ELSE "thrown"

\* sendProgressSummary(sessionId, progress) once the sender has settled:
\* a rejection is caught and logged
sendProgressSummary(ok) == "returned"

\* progress.lastSummaryTime = now
Reset(progress, t) == [progress EXCEPT !.lastSummaryTime = t]

\* the sender settles (ok or not): sendProgressSummary returns or throws,
\* and checkProgress goes on with the assignment and the rest of the loop
Resumed(t, ok) ==
    LET f == sweeps[t]
        settled == [f EXCEPT !.sent[Len(f.sent)].ok =
                                IF ok THEN "ok" ELSE "failed"]
    IN /\ f.pc = "await"
       /\ IF sendProgressSummary(ok) = "thrown"
          THEN /\ sweeps' = [sweeps EXCEPT ![t] =
                               [settled EXCEPT !.pc = "rejected"]]
               /\ UNCHANGED activeSessions
          ELSE LET map == IF f.detached THEN activeSessions
                          ELSE [activeSessions EXCEPT ![f.idx] =
                                   Reset(@, f.now)]
               IN /\ activeSessions' = map
                  /\ sweeps' = [sweeps EXCEPT ![t] =
                                   Advance(settled, map, f.idx + 1)]

\* the sender of a checkProgress call made by the environment settles
SendDone(t, ok) ==
    /\ Resumed(t, ok)
    /\ UNCHANGED <<runs, retry, now, processingSessions, msgs,
                   sessVars, callVars, monVars, asyncVars>>

NextProgress ==
    \/ Tick
    \/ \E id \in SessionIds : registerSession(id)
    \/ \E id \in SessionIds : unregisterSession(id)
    \/ \E id \in SessionIds, d \in SessionData : updateProgress(id, d)
    \/ \E t \in SweepIds : checkProgress(t)
    \/ \E t \in SweepIds, ok \in BOOLEAN : SendDone(t, ok)

SpecProgress == Init /\ [][NextProgress]_vars

----------------------------------------------------------------------------
(* Properties of the progress sweep (SpecProgress) *)

\* the step moves the loop of the checkProgress call from frame f to frame g:
\* the call starts, or the send it awaited has settled
Moved(f, g) ==
    \/ f.pc \in {"idle", "done"} /\ g # f
    \/ f.pc = "await" /\ (g.pc # "await" \/ g.idx # f.idx)

\* the first place the loop looks at in the step, and the now of the call
SweepFrom(f) == IF f.pc = "await" THEN f.idx + 1 ELSE 1
SweepTime(f) == IF f.pc = "await" THEN f.now ELSE now

\* C19: in every stretch of a sweep, the entries passed without a summary
\* are below the interval and stay as they are, the entry the sweep stops at
\* has now - lastSummaryTime >= interval and its summary is at the sender,
\* and once the send has settled the entry's lastSummaryTime is the sweep's
\* now.
C19_SweepEmitsForDue ==
    [][\A t \in SweepIds :
          LET f == sweeps[t]
              g == sweeps'[t]
              last == IF g.pc = "await" THEN g.idx - 1
                      ELSE Len(activeSessions)
          IN Moved(f, g) =>
              /\ \A i \in SweepFrom(f)..last :
                     activeSessions[i] # Empty =>
                        /\ SweepTime(f) - activeSessions[i].lastSummaryTime
                               < Interval
                        /\ activeSessions'[i] = activeSessions[i]
              /\ Len(g.sent) = (IF f.pc = "await" THEN Len(f.sent) ELSE 0)
                                + (IF g.pc = "await" THEN 1 ELSE 0)
              /\ g.pc = "await" =>
                     /\ activeSessions[g.idx] # Empty
                     /\ SweepTime(f) - activeSessions[g.idx].lastSummaryTime
                            >= Interval
                     /\ g.summary.sessionId = activeSessions[g.idx].sessionId
                     /\ g.sent[Len(g.sent)].sessionId = g.summary.sessionId
              /\ (f.pc = "await" /\ ~f.detached) =>
                     activeSessions'[f.idx].lastSummaryTime = f.now]_vars

\* a finished sweep that passed the first entry and sent one summary, for
\* the second entry, whose lastSummaryTime is now the sweep's
C19_Witness ==
    \E t \in SweepIds :
        /\ sweeps[t].pc = "done" /\ Len(sweeps[t].sent) = 1
        /\ sweeps[t].sent[1].ok = "ok"
        /\ Len(activeSessions) >= 2
        /\ activeSessions[1] # Empty /\ activeSessions[2] # Empty
        /\ sweeps[t].sent[1].sessionId = activeSessions[2].sessionId
        /\ now >= Interval
        /\ activeSessions[2].lastSummaryTime = now

\* some send of the call has failed
HasFailed(f) == \E k \in DOMAIN f.sent : f.sent[k].ok = "failed"

\* C20: no checkProgress call rejects; and when a send of a sweep fails, the
\* sweep goes on to the next entry that is due, hands its summary to the
\* sender, and sets its lastSummaryTime once that send has settled.
C20_SenderFailureCaught ==
    /\ [](\A t \in SweepIds : sweeps[t].pc # "rejected")
    /\ [][\A t \in SweepIds :
             LET f == sweeps[t]
                 g == sweeps'[t]
                 due == {i \in (f.idx + 1)..Len(activeSessions) :
                            /\ activeSessions[i] # Empty
                            /\ f.now - activeSessions[i].lastSummaryTime
                                   >= Interval}
             IN (f.pc = "await" /\ Moved(f, g) /\ HasFailed(g)) =>
                 /\ IF due = {} THEN g.pc = "done"
                    ELSE /\ g.pc = "await"
                         /\ \A i \in due : g.idx <= i
                         /\ g.idx \in due
                         /\ g.summary.sessionId =
                                activeSessions[g.idx].sessionId
                 /\ (HasFailed(f) /\ ~f.detached) =>
                        activeSessions'[f.idx].lastSummaryTime = f.now]_vars

\* a finished sweep whose first send failed and whose second went through,
\* with the second entry's lastSummaryTime set
C20_Witness ==
    \E t \in SweepIds :
        /\ sweeps[t].pc = "done" /\ Len(sweeps[t].sent) = 2
        /\ sweeps[t].sent[1].ok = "failed" /\ sweeps[t].sent[2].ok = "ok"
        /\ PlaceOf(activeSessions, sweeps[t].sent[2].sessionId) # 0
        /\ now >= Interval
        /\ activeSessions[PlaceOf(activeSessions,
                                  sweeps[t].sent[2].sessionId)]
              .lastSummaryTime = now

----------------------------------------------------------------------------
(* SpecExpiry: SessionManager.cleanupExpiredSessions over sessions that are *)
(* created, updated, lost from memory by a restart and loaded again, while  *)
(* the clock moves on.                                                      *)

\* getSession(sessionId) as a call of its own
getSession(id) ==
    /\ sessions' = SessionsAfterGet(id)
    /\ pure' = [pure EXCEPT ![id] = IF Reloaded(id) THEN -1 ELSE @]
    /\ UNCHANGED <<runs, retry, now, processingSessions, msgs, files,
                   callVars, progVars, asyncVars>>

\* the maxAge arguments tried, in clock steps
MaxAges == {0, 1}

\* new Date(session.lastActivity).getTime() is NaN for a session without
\* the field, and every comparison with NaN is false, so now - lastActivity >
\* maxAge is false
IsExpired(session, t, maxAge) ==
    session.lastActivity # NoTime /\ t - session.lastActivity > maxAge

\* the map without the key
MapDelete(map, key) == [k \in DOMAIN map \ {key} |-> map[k]]

RECURSIVE DeleteAll(_, _)
DeleteAll(map, keys) ==
    IF keys = {} THEN map
    ELSE LET k == CHOOSE x \in keys : TRUE
         IN DeleteAll(MapDelete(map, k), keys \ {k})

\* cleanupExpiredSessions(maxAge), with its deleteSession calls: the expired
\* sessions of the in-memory map leave the map and lose their file
cleanupExpiredSessions(maxAge) ==
    LET expiredSessions == {id \in DOMAIN sessions :
                               IsExpired(sessions[id], now, maxAge)}
    IN /\ sessions' = DeleteAll(sessions, expiredSessions)
       /\ files' = DeleteAll(files, expiredSessions \cap DOMAIN files)
       /\ UNCHANGED <<runs, retry, now, processingSessions, msgs, pure,
                      callVars, progVars, asyncVars>>

\* the updates objects tried by the expiry specification
StatusUpdates == {<<>>, [status |-> "completed"]}

NextExpiry ==
    \/ Tick
    \/ \E id \in SessionIds : createSession(id)
    \/ \E id \in SessionIds, u \in StatusUpdates : updateSession(id, u)
    \/ \E id \in SessionIds : getSession(id)
    \/ Restart
    \/ \E maxAge \in MaxAges : cleanupExpiredSessions(maxAge)

SpecExpiry == Init /\ [][NextExpiry]_vars

\* the time of the session's last activity: updatedAt is written together
\* with lastActivity and is kept by the session file
LastActive(session) == session.updatedAt

\* C21: a sweep cleanupExpiredSessions(maxAge) removes from the store (map
\* and file) every session held in memory whose last activity is more than
\* maxAge ago, whatever its status and whether created or reloaded, and
\* keeps every session whose last activity is within maxAge.
C21_ExpirySweep ==
    [][\A maxAge \in MaxAges :
          cleanupExpiredSessions(maxAge) =>
              \A id \in DOMAIN sessions :
                  IF now - LastActive(sessions[id]) > maxAge
                  THEN id \notin DOMAIN sessions' /\ id \notin DOMAIN files'
                  ELSE /\ id \in DOMAIN sessions'
                       /\ sessions'[id] = sessions[id]]_vars

----------------------------------------------------------------------------
(* Round trip of the session file (SpecSession) *)

\* C22: for every session built by createSession and addExecutionRecord,
\* parseSessionFromMarkdown(formatSessionToMarkdown(s)) has the loopDepth,
\* the nextPhase (null and undefined both mean none) and the status of s.
C22_RoundTrip ==
    \A id \in DOMAIN sessions :
        pure[id] >= 0 =>
            LET s == sessions[id]
                p == parseSessionFromMarkdown(formatSessionToMarkdown(s))
            IN /\ p.loopDepth = s.loopDepth
               /\ IF Truthy(s.nextPhase) THEN p.nextPhase = s.nextPhase
                  ELSE ~Truthy(p.nextPhase)
               /\ p.status = s.status

----------------------------------------------------------------------------
(* Properties of the message pipeline (SpecMsg) *)

Statuses == {"active", "escalated", "completed"}

\* C23: every admitted message has a conversation in the session store,
\* created active on the first admitted message, whose status is one of
\* active, escalated, completed.
C23_StatusMachine ==
    \A m \in Msgs :
        Admitted(m) =>
            \E id \in DOMAIN sessions : sessions[id].status \in Statuses

\* the order of the steps of one message: from each position, the next ones
PipelineNext(pc) ==
    CASE pc = "idle" -> {"skipped", "sendText"}
      [] pc = "sendText" -> {"exec", "sendError"}
      [] pc = "exec" -> {"exec", "sendResult", "sendError"}
      [] pc = "sendResult" -> {"done", "sendError"}
      [] pc = "sendError" -> {"done", "threw"}
      [] OTHER -> {}

\* C24: each admitted message goes through guard set, one subprocess run,
\* result handed to the sender, guard released, in this order and each at
\* most once; a result is handed on only by the close of the running
\* subprocess, and the guard is held until a result or an error has been
\* handed to the sender.
C24_PipelineOrder ==
    /\ [](\A m \in Msgs :
            /\ InProgress(m) => msgs[m].sid \in processingSessions
            /\ msgs[m].nResult <= 1
            /\ msgs[m].pc \in {"done", "threw"} =>
                  msgs[m].nResult + msgs[m].nError >= 1)
    /\ [][\A m \in Msgs :
            msgs'[m] # msgs[m] =>
               /\ msgs'[m].pc \in PipelineNext(msgs[m].pc)
               /\ msgs'[m].run.spawned =>
                     msgs[m].pc \in {"sendText", "exec"}
               /\ msgs'[m].nResult > msgs[m].nResult =>
                     /\ msgs[m].pc = "exec" /\ CanClose(msgs[m].run)
                     /\ msgs'[m].pc = "sendResult"
               /\ (InProgress(m) /\ msgs[m].sid \notin processingSessions') =>
                     /\ msgs'[m].pc \in {"done", "threw"}
                     /\ msgs[m].pc \in {"sendResult", "sendError"}]_vars

C24_Witness ==
    \E m \in Msgs :
        /\ msgs[m].pc = "done"
        /\ msgs[m].nResult = 1 /\ msgs[m].nError = 0
        /\ msgs[m].sid \notin processingSessions

\* C25: two handle calls that computed the same session id are never both
\* past the guard test at the same time: the second one finds the id that
\* the first one added in the step of its own test.
C25_AtomicAdmission ==
    \A a \in Msgs, b \in Msgs :
        (a # b /\ InProgress(a) /\ InProgress(b)) =>
            msgs[a].hid # msgs[b].hid

C25_Witness ==
    \E a \in Msgs, b \in Msgs :
        /\ InProgress(a) /\ msgs[b].pc = "skipped"
        /\ msgs[a].hid = msgs[b].hid

----------------------------------------------------------------------------
(* Properties of the next phase and its confidence (SpecAnalyzer) *)

\* the sum of the three terms, capped at 1.0, for a phase of the length given
ConfidenceOf(output, length) ==
    LET sum == (IF HasMarker(output) THEN 6 ELSE 0)
               + (IF length > 10 THEN 2 ELSE 0)
               + (IF Test(output, continueWords) THEN 2 ELSE 0)
    IN IF sum < 10 THEN sum ELSE 10

\* C26 as claimed: when a next phase is extracted, the confidence is the
\* capped sum of 0.6 for a labeled marker, 0.2 for a reported nextPhase
\* longer than 10 characters and 0.2 for a continuation keyword; it lies in
\* [0, 1] and is at most 0.4 without a labeled marker.
C26_ConfidenceOfReported ==
    (call.fn = "analyze" /\ call.returned.canContinue) =>
        /\ call.returned.confidence =
              ConfidenceOf(call.output, Len(call.returned.nextPhase[1]))
        /\ call.returned.confidence \in 0..10
        /\ ~HasMarker(call.output) => call.returned.confidence <= 4

\* the first of the labeled patterns that matches the text, 0 for none
FirstPattern(text) ==
    IF HasMarker(text)
    THEN CHOOSE p \in DOMAIN nextPhasePatterns :
            /\ Match(text, nextPhasePatterns[p]) # <<>>
            /\ \A r \in 1..(p - 1) : Match(text, nextPhasePatterns[r]) = <<>>
    ELSE 0

\* the last non-empty line, when it may stand for the next phase
Fallback(text) ==
    IF /\ LastLine(text) # <<>>
       /\ ~Test(LastLine(text)[1], completionWords)
       /\ ~Test(LastLine(text)[1], errorWords)
    THEN LastLine(text)
    ELSE <<>>

\* C27: extractNextPhase returns the capture of the first labeled pattern, in
\* the listed order, that matches; without any, the last non-empty line if
\* and only if it matches neither a completion nor an error pattern; and
\* when nothing is extracted analyze does not report a Continue.
C27_ExtractionOrder ==
    /\ call.fn = "extractNextPhase" =>
          IF HasMarker(call.output)
          THEN call.returned =
                  Match(call.output,
                        nextPhasePatterns[FirstPattern(call.output)])
          ELSE call.returned = Fallback(call.output)
    /\ (call.fn = "analyze" /\ ~HasMarker(call.output)
           /\ Fallback(call.output) = <<>>) =>
          ~call.returned.canContinue

\* a text in which a later pattern matches before the first one does
C27_Witness ==
    /\ call.fn = "extractNextPhase"
    /\ FirstPattern(call.output) = 1
    /\ Match(call.output, nextPhasePatterns[2]) # <<>>
    /\ call.returned = Match(call.output, nextPhasePatterns[1])
    /\ call.returned # Match(call.output, nextPhasePatterns[2])

\* C28: for every non-empty output the returned analysis has hasError equal
\* to "an error pattern matches" and needsInput equal to "an input pattern
\* matches", whether or not isComplete or canContinue is set.
C28_SideFlags ==
    (call.fn = "analyze" /\ call.output # <<>>) =>
        /\ {"hasError", "needsInput"} \subseteq DOMAIN call.returned
        /\ call.returned.hasError <=> Test(call.output, errorWords)
        /\ call.returned.needsInput <=>
              (Test(call.output, inputWords) \/ EndsWithQuestion(call.output))

\* a complete output with an error, flagged as both
C28_Witness ==
    /\ call.fn = "analyze"
    /\ call.returned.isComplete /\ call.returned.hasError
    /\ ~call.returned.needsInput

----------------------------------------------------------------------------
(* File paths of an output: ResultAnalyzer.extractKeyInfo and
   FeishuSender.sendExecutionResult (SpecFiles).  Both match the output
   against /(?:[a-zA-Z]:\\|\/)?[\w\-\\\/\.]+\.\w+/g. *)

Digits == {"0", "1", "2", "3", "4", "5", "6", "7", "8", "9"}

IsLetter(c) ==
    \E i \in DOMAIN UpperCase : c = UpperCase[i] \/ c = LowerCase[i]

\* \w
IsWord(c) == IsLetter(c) \/ c \in Digits \/ c = "_"

\* [\w\-\\\/\.]
IsPathChar(c) == IsWord(c) \/ c \in {"-", "\\", "/", "."}

\* the number of characters from position i on that are word characters
WordRun(text, i) ==
    MaxOf({k \in 0..(Len(text) + 1 - i) :
            \A j \in i..(i + k - 1) : IsWord(text[j])})

\* the number of characters from position i on that are path characters
PathRun(text, i) ==
    MaxOf({k \in 0..(Len(text) + 1 - i) :
            \A j \in i..(i + k - 1) : IsPathChar(text[j])})

\* [\w\-\\\/\.]+\.\w+ from position b: the position right after the match,
\* 0 for none.  The greedy class gives back characters down to the last
\* dot that has a word character after it.
BodyEnd(text, b) ==
    LET dots == {k \in (b + 1)..(b + PathRun(text, b) - 2) :
                    text[k] = "." /\ IsWord(text[k + 1])}
    IN IF b > Len(text) \/ dots = {} THEN 0
       ELSE MaxOf(dots) + 1 + WordRun(text, MaxOf(dots) + 1)

\* the whole pattern from position i: the drive prefix first, then the
\* slash, then no prefix
MatchAt(text, i) ==
    LET drive == IF /\ i + 2 <= Len(text)
                    /\ IsLetter(text[i])
                    /\ text[i + 1] = ":"
                    /\ text[i + 2] = "\\"
                 THEN BodyEnd(text, i + 3) ELSE 0
        slash == IF text[i] = "/" THEN BodyEnd(text, i + 1) ELSE 0
    IN IF drive # 0 THEN drive
       ELSE IF slash # 0 THEN slash
       ELSE BodyEnd(text, i)

\* output.match(filePattern) || []: the matches from position i on
RECURSIVE MatchAll(_, _)
MatchAll(text, i) ==
    IF i > Len(text) THEN <<>>
    ELSE IF MatchAt(text, i) # 0
    THEN <<SubSeq(text, i, MatchAt(text, i) - 1)>>
         \o MatchAll(text, MatchAt(text, i))
    ELSE MatchAll(text, i + 1)

\* [...new Set(list)]: each value once, at its first place
Distinct(list) ==
    LET first == {i \in DOMAIN list : \A j \in 1..(i - 1) : list[j] # list[i]}
        F[i \in 0..Len(list)] ==
            IF i = 0 THEN <<>>
            ELSE IF i \in first THEN Append(F[i - 1], list[i])
            ELSE F[i - 1]
    IN F[Len(list)]

\* file.toLowerCase().endsWith(ext) for some ext of the list
HasExtension(file, extensions) ==
    \E ext \in extensions :
        /\ Len(ext) <= Len(file)
        /\ \A k \in DOMAIN ext :
              toLowerCase(file[Len(file) - Len(ext) + k]) = ext[k]

Filter(list, extensions) ==
    SelectSeq(list, LAMBDA file : HasExtension(file, extensions))

\* imageExtensions
imageExtensions ==
    {<<".", "p", "n", "g">>, <<".", "j", "p", "g">>,
     <<".", "j", "p", "e", "g">>, <<".", "g", "i", "f">>,
     <<".", "w", "e", "b", "p">>, <<".", "s", "v", "g">>,
     <<".", "b", "m", "p">>}

\* audioExtensions
audioExtensions ==
    {<<".", "m", "p", "3">>, <<".", "w", "a", "v">>,
     <<".", "a", "a", "c">>, <<".", "o", "g", "g">>,
     <<".", "f", "l", "a", "c">>, <<".", "m", "4", "a">>}

\* videoExtensions
videoExtensions ==
    {<<".", "m", "p", "4">>, <<".", "a", "v", "i">>,
     <<".", "m", "o", "v">>, <<".", "m", "k", "v">>,
     <<".", "f", "l", "v">>, <<".", "w", "e", "b", "m">>}

\* docExtensions
docExtensions ==
    {<<".", "d", "o", "c">>, <<".", "d", "o", "c", "x">>,
     <<".", "x", "l", "s">>, <<".", "x", "l", "s", "x">>,
     <<".", "p", "p", "t">>, <<".", "p", "p", "t", "x">>,
     <<".", "p", "d", "f">>, <<".", "t", "x", "t">>,
     <<".", "c", "s", "v">>, <<".", "m", "d">>}

\* extractKeyInfo(output): the files and the images of the returned info
extractKeyInfo(output) ==
    LET matched == Distinct(MatchAll(output, 1))
    IN [files |-> matched, images |-> Filter(matched, imageExtensions)]

\* the media loops of sendExecutionResult over one category: every path of
\* the list that exists is uploaded, and sent when the upload returns; an
\* upload that throws is logged and the loop goes on
MediaOf(kind, list, existing) ==
    LET found == SelectSeq(list, LAMBDA file : file \in existing)
    IN [i \in DOMAIN found |-> [kind |-> kind, path |-> found[i]]]

\* sendExecutionResult(chatId, result): the uploads made and the messages
\* sent, in order; the rich text message comes last
sendExecutionResult(output, existing, uploadFails) ==
    LET matched == MatchAll(output, 1)
        uploads == MediaOf("image", Filter(matched, imageExtensions), existing)
                   \o MediaOf("audio", Filter(matched, audioExtensions), existing)
                   \o MediaOf("video", Filter(matched, videoExtensions), existing)
                   \o MediaOf("file", Filter(matched, docExtensions), existing)
    IN [uploads |-> uploads,
        sent |-> (IF uploadFails THEN <<>> ELSE uploads)
                 \o <<[kind |-> "post", path |-> <<>>]>>]

\* the outputs tried
FileOutputs ==
    <<
     \* 'saved /tmp/a.png, see /tmp/a.png'
     <<"s", "a", "v", "e", "d", " ", "/", "t", "m", "p", "/", "a", ".",
       "p", "n", "g", ",", " ", "s", "e", "e", " ", "/", "t", "m", "p",
       "/", "a", ".", "p", "n", "g">>,
     \* 'wrote out.PNG and notes.md'
     <<"w", "r", "o", "t", "e", " ", "o", "u", "t", ".", "P", "N", "G",
       " ", "a", "n", "d", " ", "n", "o", "t", "e", "s", ".", "m", "d">>,
     \* 'C:\\x\\a.mp3 C:\\x\\a.mp3 b.mp4'
     <<"C", ":", "\\", "x", "\\", "a", ".", "m", "p", "3", " ", "C", ":",
       "\\", "x", "\\", "a", ".", "m", "p", "3", " ", "b", ".", "m", "p",
       "4">>,
     \* 'no files here'
     <<"n", "o", " ", "f", "i", "l", "e", "s", " ", "h", "e", "r", "e">>,
     \* 'v1.2.3 report.pdf\nreport.pdf'
     <<"v", "1", ".", "2", ".", "3", " ", "r", "e", "p", "o", "r", "t",
       ".", "p", "d", "f", "\n", "r", "e", "p", "o", "r", "t", ".", "p",
       "d", "f">>,
     \* ''
     <<>>
    >>

\* the paths that may exist on the disk: those the outputs name
Paths ==
    UNION {{MatchAll(FileOutputs[i], 1)[k] :
               k \in DOMAIN MatchAll(FileOutputs[i], 1)} :
           i \in DOMAIN FileOutputs}

\* one call extractKeyInfo(output)
CallExtractKeyInfo(output) ==
    /\ call = NoCall
    /\ call' = [fn |-> "extractKeyInfo", output |-> output,
                returned |-> extractKeyInfo(output)]
    /\ UNCHANGED <<runs, retry, now, processingSessions, msgs, sessVars, progVars, asyncVars>>

\* one call sendExecutionResult(chatId, {output}) with the disk and the
\* upload service as given
CallSendExecutionResult(output, existing, uploadFails) ==
    /\ call = NoCall
    /\ call' = [fn |-> "sendExecutionResult", output |-> output,
                existing |-> existing, uploadFails |-> uploadFails,
                returned |-> sendExecutionResult(output, existing, uploadFails)]
    /\ UNCHANGED <<runs, retry, now, processingSessions, msgs, sessVars, progVars, asyncVars>>

NextFiles ==
    \/ \E i \in DOMAIN FileOutputs : CallExtractKeyInfo(FileOutputs[i])
    \/ \E i \in DOMAIN FileOutputs, existing \in SUBSET Paths,
          uploadFails \in BOOLEAN :
          CallSendExecutionResult(FileOutputs[i], existing, uploadFails)

SpecFiles == Init /\ [][NextFiles]_vars

\* how many times value occurs in list
Count(list, value) == Cardinality({i \in DOMAIN list : list[i] = value})

\* C29: file paths are deduplicated before they are acted on: extractKeyInfo
\* returns each distinct path of the output once, and sendExecutionResult
\* uploads and sends an existing file once however often the output
\* mentions it.
C29_PathsDeduplicated ==
    /\ call.fn = "extractKeyInfo" =>
          \A k \in DOMAIN MatchAll(call.output, 1) :
              Count(call.returned.files, MatchAll(call.output, 1)[k]) = 1
    /\ call.fn = "sendExecutionResult" =>
          \A p \in call.existing :
              /\ Count([i \in DOMAIN call.returned.uploads |->
                           call.returned.uploads[i].path], p) <= 1
              /\ Count([i \in DOMAIN call.returned.sent |->
                           call.returned.sent[i].path], p) <= 1

----------------------------------------------------------------------------
(* Every admitted message is answered (SpecMsgLive) *)

\* the 'error' event of a spawn that failed
LaunchFailure(m) ==
    /\ msgs[m].pc = "exec"
    /\ msgs[m].run.launchFails
    /\ MsgError(m)

\* The events of the messages with the clock left alone: the two readings of
\* the clock in Handle still differ or agree, and no other step reads it.
NextMsgLive ==
    \/ \E m \in Msgs, c \in ChatIds, s \in SenderIds, t2 \in 0..MaxTime :
          Handle(m, c, s, t2)
    \/ \E m \in Msgs, ok \in BOOLEAN, lf \in BOOLEAN : SendTextDone(m, ok, lf)
    \/ \E m \in Msgs : MsgTimeout(m)
    \/ \E m \in Msgs, code \in CloseCodes : MsgClose(m, code)
    \/ \E m \in Msgs : MsgError(m)
    \/ \E m \in Msgs, ok \in BOOLEAN : SendResultDone(m, ok)
    \/ \E m \in Msgs, ok \in BOOLEAN : SendErrorDone(m, ok)

\* What the scheduling guarantees: a sender call that was made returns or
\* throws, an armed timer fires unless it is cleared first, and a failed
\* spawn emits 'error'.  Nothing makes the child close.
SpecMsgLive ==
    /\ Init /\ [][NextMsgLive]_vars
    /\ \A m \in Msgs :
          /\ WF_vars(\E ok \in BOOLEAN, lf \in BOOLEAN : SendTextDone(m, ok, lf))
          /\ WF_vars(MsgTimeout(m))
          /\ WF_vars(LaunchFailure(m))

\* C30: every message that passes the guard is eventually answered:
\* sendExecutionResult or sendErrorMessage is invoked for it, because the
\* subprocess closes, fails to launch or is cut off by the timer.
C30_EventuallyAnswered ==
    \A m \in Msgs :
        Admitted(m) ~> (msgs[m].nResult + msgs[m].nError >= 1)

\* a message whose child never closed, answered with the timeout error
C30_Witness ==
    \E m \in Msgs :
        /\ Admitted(m)
        /\ msgs[m].nResult = 0
        /\ msgs[m].nError = 1
        /\ msgs[m].errMsg = TimeoutError("executeSkill")

----------------------------------------------------------------------------
(* EventHandler.handle as a whole: the events it returns on, and its own
   try/catch (SpecHandle) *)

\* the events that do not reach processMessage
Events ==
    {"undefined", "read", "noMessage", "badJson", "nullContent", "noType",
     "image", "noText", "numberText", "blank"}

\* what the body of handle does with such an event: "return", or "throw"
\* where a property is read from undefined or null, or trim is not a function
handleScreen(kind) ==
    CASE kind = "undefined"   -> "throw"    \* data.event_type
      [] kind = "read"        -> "return"   \* handleMessageRead
      [] kind = "noMessage"   -> "return"   \* !data.message
      [] kind = "badJson"     -> "return"   \* JSON.parse throws, caught inside
      [] kind = "nullContent" -> "throw"    \* JSON.parse('null').text
      [] kind = "noType"      -> "return"   \* !msgType
      [] kind = "image"       -> "return"   \* msgType !== 'text'
      [] kind = "noText"      -> "return"   \* !content.text
      [] kind = "numberText"  -> "throw"    \* content.text.trim of a number
      [] kind = "blank"       -> "return"   \* !text after trim

\* handle(data) for an event of one of these kinds
HandleEvent(m, kind) ==
    /\ msgs[m].pc = "idle"
    /\ \A k \in 1..(m - 1) : msgs[k].pc # "idle"
    /\ msgs' = [msgs EXCEPT ![m].pc = IF handleScreen(kind) = "throw"
                                      THEN "typeError" ELSE "ignored"]
    /\ UNCHANGED <<runs, retry, now, processingSessions, otherVars>>

NextHandle ==
    \/ \E m \in Msgs, kind \in Events : HandleEvent(m, kind)
    \/ NextMsgLive

SpecHandle == Init /\ [][NextHandle]_vars

\* (variant: handle without its try/catch)
handleNoCatch(thrown) == IF thrown THEN "rejected" ELSE "resolved"

\* the try/catch around the body of handle: the catch block logs and the
\* async function returns undefined
handleCatch(thrown) == "resolved"

\* the promise returned by handle for the event of frame f
handlePromise(f) ==
    CASE f.pc = "idle" -> "none"
      [] f.pc \in {"sendText", "exec", "sendResult", "sendError"} -> "pending"
      [] f.pc \in {"typeError", "threw"} -> handleCatch(TRUE)
      [] OTHER -> handleCatch(FALSE)

\* C31: the promise returned by handle never rejects, whatever the event and
\* whichever call fails, and a later event is still dispatched after a
\* failing one.
C31_HandleNeverRejects ==
    \A m \in Msgs :
        /\ handlePromise(msgs[m]) # "rejected"
        /\ msgs[m].pc \in {"ignored", "typeError", "skipped", "done", "threw"}
              => handlePromise(msgs[m]) = "resolved"

\* a message whose sendErrorMessage threw, and a later one answered
C31_Witness ==
    \E a, b \in Msgs :
        /\ a < b
        /\ msgs[a].pc = "threw"
        /\ msgs[b].pc = "done"

----------------------------------------------------------------------------
(* ProgressManager.start / stop, the interval timers and the real time of
   the summaries (SpecMonitor) *)

\* the values of config.progress.enabled
Enabled == {"yes", "no"}

\* the interval timers that are not cleared
Live(mon) == {k \in DOMAIN mon.timers : mon.timers[k] # -1}

\* start() at time t with config.progress.enabled as given: a new interval
\* timer, whose handle replaces this.timer
Started(mon, enabled, t) ==
    IF enabled = "no" THEN [mon EXCEPT !.enabled = enabled]
    ELSE [mon EXCEPT !.enabled = enabled,
                     !.timers = Append(@, t + Interval),
                     !.timer = Len(mon.timers) + 1]

\* stop(): clearInterval(this.timer) when this.timer is set
Stopped(mon) ==
    IF mon.timer # 0
    THEN [mon EXCEPT !.timers[mon.timer] = -1, !.timer = 0]
    ELSE mon

\* the summary emitted in a step that took a sweep from `had` sends to
\* frame g, noted with the time of the step
Noted(hist, had, g) ==
    IF Len(g.sent) > had
    THEN [hist EXCEPT ![g.sent[Len(g.sent)].sessionId] =
             [last |-> now,
              gap |-> IF @.last = -1 THEN -1 ELSE now - @.last]]
    ELSE hist

\* ProgressManager.start()
start(enabled) ==
    /\ monitor.enabled \in {"unread", enabled}
    /\ enabled = "yes" => Len(monitor.timers) < MaxTimers
    /\ monitor' = Started(monitor, enabled, now)
    /\ UNCHANGED <<runs, retry, now, processingSessions, msgs, sessVars,
                   callVars, activeSessions, sweeps, emitted, service, asyncVars>>

\* ProgressManager.stop()
stop ==
    /\ monitor' = Stopped(monitor)
    /\ UNCHANGED <<runs, retry, now, processingSessions, msgs, sessVars,
                   callVars, activeSessions, sweeps, emitted, service, asyncVars>>

\* interval timer k fires: its callback calls checkProgress()
TimerFire(k) ==
    /\ k \in Live(monitor)
    /\ monitor.timers[k] = now
    /\ \E t \in SweepIds :
          /\ Sweep(t)
          /\ emitted' = Noted(emitted, 0, sweeps'[t])
    /\ monitor' = [monitor EXCEPT !.timers[k] = now + Interval]
    /\ UNCHANGED <<runs, retry, now, processingSessions, msgs, sessVars,
                   callVars, service, asyncVars>>

\* the sender of a sweep settles and the sweep goes on
SendSettled(t, ok) ==
    /\ Resumed(t, ok)
    /\ emitted' = Noted(emitted, Len(sweeps[t].sent), sweeps'[t])
    /\ UNCHANGED <<runs, retry, now, processingSessions, msgs, sessVars,
                   callVars, monitor, service, asyncVars>>

\* time passes, once the timers that are due have fired
Pass ==
    /\ now < MaxClock
    /\ \A k \in Live(monitor) : monitor.timers[k] > now
    /\ now' = now + 1
    /\ UNCHANGED <<runs, retry, processingSessions, msgs, otherVars>>

NextMonitor ==
    \/ Pass
    \/ \E enabled \in Enabled : start(enabled)
    \/ stop
    \/ \E k \in 1..MaxTimers : TimerFire(k)
    \/ \E t \in SweepIds, ok \in BOOLEAN : SendSettled(t, ok)
    \/ \E id \in SessionIds : registerSession(id)

SpecMonitor == Init /\ [][NextMonitor]_vars

\* C38: for any sequence of start() and stop() calls at most one interval
\* timer is active, after stop() none is active and no sweep starts until
\* the next start(), and start() with progress disabled creates no timer.
C38_OneTimer ==
    /\ [](Cardinality(Live(monitor)) <= 1)
    /\ [][stop => Live(monitor') = {}]_vars
    /\ [][start("no") => monitor'.timers = monitor.timers]_vars
    /\ [][(\E k \in 1..MaxTimers : TimerFire(k)) => monitor.timer # 0]_vars

----------------------------------------------------------------------------
(* BridgeService.start / stop around the progress monitor (SpecService).
   index.js makes one service and calls start() once; stop() is called by
   the signal handlers, at any time and any number of times. *)

\* the methods of the WebSocketManager instance
WebSocketMethods ==
    {"connect", "addEventHandler", "removeEventHandler", "getConnectionStatus"}

\* start(): isRunning is false; initialize() awaits the CLI check
StartCall ==
    /\ service.start = "none"
    /\ service' = [service EXCEPT !.start = "initializing"]
    /\ UNCHANGED <<runs, retry, now, processingSessions, msgs, sessVars,
                   callVars, activeSessions, sweeps, monitor, emitted, asyncVars>>

\* initialize() goes on: ProgressManager.start(), addEventHandler, and
\* connect(), which returns or throws; a throw ends the process and with it
\* the timers
StartInit(enabled, connects) ==
    /\ service.start = "initializing"
    /\ monitor.enabled \in {"unread", enabled}
    /\ IF connects
       THEN /\ monitor' = Started(monitor, enabled, now)
            /\ service' = [service EXCEPT !.start = "connecting"]
       ELSE /\ monitor' = [Started(monitor, enabled, now) EXCEPT
                              !.timers = [k \in DOMAIN @ |-> -1]]
            /\ service' = [service EXCEPT !.start = "exited"]
    /\ UNCHANGED <<runs, retry, now, processingSessions, msgs, sessVars,
                   callVars, activeSessions, sweeps, emitted, asyncVars>>

\* the await of connect() resumes: isRunning = true
StartDone ==
    /\ service.start = "connecting"
    /\ service' = [service EXCEPT !.start = "returned", !.isRunning = TRUE]
    /\ UNCHANGED <<runs, retry, now, processingSessions, msgs, sessVars,
                   callVars, activeSessions, sweeps, monitor, emitted, asyncVars>>

\* stop(): returns when the service is not running; else calls
\* WebSocketManager.disconnect(), a TypeError when the instance has no such
\* method, then ProgressManager.stop(), cleanupExpiredSessions() (no session
\* is held here) and isRunning = false
ServiceStop ==
    /\ service.start # "exited"
    /\ IF ~service.isRunning
       THEN /\ service' = [service EXCEPT !.stop = "returned"]
            /\ UNCHANGED monitor
       ELSE IF "disconnect" \notin WebSocketMethods
       THEN /\ service' = [service EXCEPT !.stop = "threw"]
            /\ UNCHANGED monitor
       ELSE /\ service' = [service EXCEPT !.stop = "returned",
                                          !.isRunning = FALSE,
                                          !.cleanups = 1]
            /\ monitor' = Stopped(monitor)
    /\ UNCHANGED <<runs, retry, now, processingSessions, msgs, sessVars,
                   callVars, activeSessions, sweeps, emitted, asyncVars>>

NextService ==
    \/ Pass
    \/ StartCall
    \/ \E enabled \in Enabled, connects \in BOOLEAN :
          StartInit(enabled, connects)
    \/ StartDone
    \/ ServiceStop
    \/ \E k \in 1..MaxTimers : TimerFire(k)
    \/ \E t \in SweepIds, ok \in BOOLEAN : SendSettled(t, ok)
    \/ \E id \in SessionIds : registerSession(id)

SpecService == Init /\ [][NextService]_vars

\* C32: for every registered session, two consecutive summaries go to the
\* sender at least one interval apart in real time, whatever the latency of
\* the sends and however the sweeps of the timer overlap.
C32_SummariesSpaced ==
    \A id \in SessionIds :
        emitted[id].gap # -1 => emitted[id].gap >= Interval

\* C37: stop() on a running service leaves the progress monitor stopped,
\* the expired-session cleanup run and isRunning false; stop() on a service
\* that is not running changes nothing.
C37_StopStops ==
    [][ServiceStop =>
          IF service.isRunning
          THEN /\ Live(monitor') = {}
               /\ monitor'.timer = 0
               /\ service'.cleanups = service.cleanups + 1
               /\ ~service'.isRunning
          ELSE /\ monitor' = monitor
               /\ service'.isRunning = service.isRunning
               /\ service'.cleanups = service.cleanups]_vars

----------------------------------------------------------------------------
(* executeWithRetry always ends (SpecRetryLive) *)

\* the 'error' event of an attempt whose spawn failed
RetryLaunchFailure ==
    /\ retry.run.launchFails
    /\ RetryError

\* What the scheduling guarantees: an armed timer fires unless it is cleared
\* first, a failed spawn emits 'error', a settled promise resumes the await
\* and a sleep ends.  Nothing makes the child close.
SpecRetryLive ==
    /\ SpecRetry
    /\ WF_vars(RetryTimeout)
    /\ WF_vars(RetryLaunchFailure)
    /\ WF_vars(RetrySettled)
    /\ WF_vars(\E lf \in BOOLEAN : RetryWake(lf))

\* the attempts that ended with an exception
Raised == {i \in DOMAIN retry.outcomes : retry.outcomes[i] \notin {"ok", "nonzero"}}

\* launches and waits of a call, for any mix of outcomes
RetryBounded ==
    /\ retry.launches <= (IF retry.maxRetries > 0 THEN retry.maxRetries ELSE 0)
    /\ Len(retry.outcomes) <= retry.launches
    /\ Len(retry.sleeps) <= Len(retry.outcomes)
    /\ retry.pc = "sleep" => Len(retry.outcomes) < retry.maxRetries
    /\ retry.pc \in {"returned", "thrown"} =>
          Len(retry.sleeps) = (IF retry.launches = 0 THEN 0
                               ELSE retry.launches - 1)
    /\ retry.pc = "returned" =>
          /\ retry.outcomes # <<>>
          /\ retry.outcomes[Len(retry.outcomes)] \in {"ok", "nonzero"}
          /\ retry.ret = retry.run.value

\* C33 as claimed: at most maxRetries launches, no wait after the final
\* attempt, and the call always ends by returning a result or by throwing
\* the last error.
C33_RetryEnds ==
    /\ [](RetryBounded
          /\ (retry.pc = "thrown" =>
                 /\ Raised # {}
                 /\ retry.thrown = retry.outcomes[MaxOf(Raised)]))
    /\ (retry.pc # "idle") ~> (retry.pc \in {"returned", "thrown"})

\* C33 amended: ... or by throwing the last error, or, when maxRetries is
\* below 1, by throwing a generic error without any launch.
C33_RetryEndsOrRefuses ==
    /\ [](RetryBounded
          /\ (retry.pc = "thrown" =>
                 IF retry.maxRetries >= 1
                 THEN /\ Raised # {}
                      /\ MaxOf(Raised) = Len(retry.outcomes)
                      /\ retry.thrown = retry.outcomes[MaxOf(Raised)]
                 ELSE /\ retry.launches = 0
                      /\ retry.thrown = "exec failed"))
    /\ (retry.pc # "idle") ~> (retry.pc \in {"returned", "thrown"})

\* three attempts that end in different ways, the last one thrown
C33_Witness ==
    /\ retry.pc = "thrown" /\ retry.maxRetries = 3
    /\ retry.launches = 3
    /\ retry.outcomes = <<TimeoutError(retry.fn), "nonzero", LaunchError>>
    /\ retry.sleeps = <<1000, 2000>>
    /\ retry.thrown = LaunchError

----------------------------------------------------------------------------
(* SpecConcurrent: updateSession and addExecutionRecord as asynchronous     *)
(* calls. A call runs without interruption between two file operations:     *)
(* the continuations of resolved promises all run before the next file      *)
(* callback. A call therefore stops only at fs.readFile (getSession on a    *)
(* session that is not in the map) and at fs.writeFile (saveSession).       *)

\* Error('U+4F1A U+8BDD U+4E0D U+5B58 U+5728: ' + sessionId)
NotExist == "U4F1AU8BDDU4E0DU5B58U5728"

\* getSession, first branch: the session the map holds
Held(map, id) == [sessions |-> map, session |-> <<map[id]>>]

\* (variant: a session that has no file is created)
LoadedOrNew(map, disk, id) ==
    LET session == IF id \in DOMAIN disk
                   THEN parseSessionFromMarkdown(disk[id])
                   ELSE NewSession(id, 0)
    IN [sessions |-> MapSet(map, id, session), session |-> <<session>>]

\* getSession, the try block once readFile has settled: the content is
\* parsed and the new object replaces whatever the map holds under the id;
\* a failed read is caught and null (<<>>) returned
Loaded(map, disk, id) ==
    IF id \in DOMAIN disk
    THEN LET session == parseSessionFromMarkdown(disk[id])
         IN [sessions |-> MapSet(map, id, session), session |-> <<session>>]
    ELSE [sessions |-> map, session |-> <<>>]

\* what the call does to the session it got
Applied(f, session) ==
    IF f.op = "add"
    THEN LET added == AddRecord(session, f.arg[1])
         IN Assign(added, added, now)
    ELSE Assign(session, f.arg[1], now)

\* the writes issued and not yet landed
Writing == {c \in AddIds : adds[c].pc = "writing"}

\* the place of the next write among the writes issued
NextSeq ==
    1 + (IF Writing = {} THEN 0
         ELSE CHOOSE n \in {adds[c].seq : c \in Writing} :
                \A c \in Writing : adds[c].seq <= n)

\* the call from the value of getSession to the writeFile of saveSession,
\* or to the throw
AfterGet(c, f, got) ==
    IF got.session = <<>>
    THEN /\ adds' = [adds EXCEPT ![c] = [f EXCEPT !.pc = "threw",
                                                 !.error = NotExist]]
         /\ sessions' = got.sessions
    ELSE LET session == Applied(f, got.session[1])
         IN /\ sessions' = MapSet(got.sessions, f.id, session)
            /\ adds' = [adds EXCEPT ![c] =
                          [f EXCEPT !.pc = "writing",
                                    !.content = formatSessionToMarkdown(session),
                                    !.seq = NextSeq]]

\* the calls made before call c
Earlier(c) == IF c = "a2" THEN {"a1"} ELSE {}

\* updateSession(id, arg) or addExecutionRecord(id, arg) is called
SessionCall(c, op, id, arg) ==
    /\ adds[c].pc = "idle"
    /\ \A b \in Earlier(c) : adds[b].pc # "idle"
    /\ LET f == [IdleAdd EXCEPT !.op = op, !.id = id, !.arg = <<arg>>]
       IN IF id \in DOMAIN sessions
          THEN AfterGet(c, f, Held(sessions, id))
          ELSE /\ adds' = [adds EXCEPT ![c] = [f EXCEPT !.pc = "reading"]]
               /\ UNCHANGED sessions
    /\ UNCHANGED <<files, pure>>
    /\ UNCHANGED <<runs, retry, now, processingSessions, msgs, callVars, progVars, batch>>

\* fs.readFile of getSession settles
ReadSettled(c) ==
    /\ adds[c].pc = "reading"
    /\ AfterGet(c, adds[c], Loaded(sessions, files, adds[c].id))
    /\ UNCHANGED <<files, pure>>
    /\ UNCHANGED <<runs, retry, now, processingSessions, msgs, callVars, progVars, batch>>

\* fs.writeFile of saveSession settles; the writes to one file land in the
\* order they were issued
WriteSettled(c) ==
    /\ adds[c].pc = "writing"
    /\ \A b \in Writing : adds[b].id = adds[c].id => adds[c].seq <= adds[b].seq
    /\ files' = MapSet(files, adds[c].id, adds[c].content)
    /\ adds' = [adds EXCEPT ![c].pc = "done"]
    /\ UNCHANGED <<sessions, pure>>
    /\ UNCHANGED <<runs, retry, now, processingSessions, msgs, callVars, progVars, batch>>

\* createSession for an id that has no session yet
CreateFresh(id) == id \notin DOMAIN files /\ createSession(id)

NextConcurrent ==
    \/ \E id \in SessionIds : CreateFresh(id)
    \/ Restart
    \/ \E c \in AddIds, id \in SessionIds, r \in RecordInputs :
          SessionCall(c, "add", id, r)
    \/ \E c \in AddIds, id \in SessionIds, u \in Updates :
          SessionCall(c, "update", id, u)
    \/ \E c \in AddIds : ReadSettled(c)
    \/ \E c \in AddIds : WriteSettled(c)

SpecConcurrent == Init /\ [][NextConcurrent]_vars

\* the records of the finished addExecutionRecord calls on a session
AddedTo(id) ==
    {c \in AddIds : adds[c].op = "add" /\ adds[c].id = id /\ adds[c].pc = "done"}

\* C34: once two concurrent addExecutionRecord calls on one session have
\* both completed, the stored session holds both records and its loopDepth
\* counts every one of them that carried a nextPhase.
C34_NoLostUpdate ==
    \A id \in SessionIds :
        Cardinality(AddedTo(id)) = 2 =>
            /\ HeldLen(sessions, id) >= 2
            /\ id \in DOMAIN sessions =>
                  sessions[id].loopDepth >=
                      Cardinality({c \in AddedTo(id) :
                                      Truthy(adds[c].arg[1].nextPhase)})


\* call c finds its session neither in the map nor on disk
Missing(c) ==
    /\ adds[c].pc = "reading"
    /\ adds[c].id \notin DOMAIN sessions
    /\ adds[c].id \notin DOMAIN files

\* C36: an updateSession or addExecutionRecord call whose session id is
\* neither in memory nor on disk throws the 'session does not exist' error,
\* and the step leaves the map and the files as they were.
C36_MissingSessionRejected ==
    [][\A c \in AddIds :
          Missing(c) /\ ReadSettled(c) =>
              /\ adds'[c].pc = "threw"
              /\ adds'[c].error = NotExist
              /\ sessions' = sessions
              /\ files' = files]_vars

\* both methods have thrown on a missing id while another session is stored
C36_Witness ==
    /\ adds["a1"].pc = "threw" /\ adds["a1"].op = "update"
    /\ adds["a2"].pc = "threw" /\ adds["a2"].op = "add"
    /\ adds["a1"].id = "s2" /\ adds["a2"].id = "s2"
    /\ DOMAIN sessions = {"s1"}
    /\ DOMAIN files = {"s1"}


----------------------------------------------------------------------------
(* Loop bookkeeping of the session store (SpecSession) *)

\* the places of the first n history records that carry a nextPhase
Carrying(h, n) == {i \in 1..n : Truthy(h[i].nextPhase)}

\* the place of the latest history record that carries a nextPhase
LatestCarrying(h) ==
    CHOOSE i \in Carrying(h, Len(h)) : \A j \in Carrying(h, Len(h)) : j <= i

\* C35: for a session built by createSession and addExecutionRecord calls
\* only, loopDepth is the number of history records that carry a nextPhase,
\* nextPhase is that of the latest such record, and every record's own
\* loopDepth is the number of such records before it.
C35_DepthCountsRecords ==
    \A id \in DOMAIN sessions :
        pure[id] >= 0 =>
            LET h == sessions[id].history
            IN /\ sessions[id].loopDepth = Cardinality(Carrying(h, Len(h)))
               /\ IF Carrying(h, Len(h)) = {}
                  THEN sessions[id].nextPhase = Null
                  ELSE sessions[id].nextPhase = h[LatestCarrying(h)].nextPhase
               /\ \A i \in 1..Len(h) :
                     h[i].loopDepth = Cardinality(Carrying(h, i - 1))

\* a session whose three records are a Continue, a plain one and a Continue
\* to another phase
C35_Witness ==
    \E id \in DOMAIN sessions :
        /\ pure[id] >= 0
        /\ Len(sessions[id].history) = 3
        /\ sessions[id].history[1].nextPhase = "p1"
        /\ sessions[id].history[2].nextPhase = Null
        /\ sessions[id].history[3].nextPhase = "p2"
        /\ sessions[id].loopDepth = 2


----------------------------------------------------------------------------
(* SpecBatch: executeBatch(commands, options) of IFlowAdapter. A command    *)
(* stands for what executeWithRetry does with it: it returns a result with  *)
(* success true, returns a result with success false, or throws.            *)

MaxBatch == 3

CommandOutcomes == {"success", "failed", "throws"}

RECURSIVE Batches(_)
\* the commands arrays of at most n commands
Batches(n) ==
    IF n = 0 THEN {<<>>}
    ELSE Batches(n - 1)
         \cup {Append(b, o) : b \in {x \in Batches(n - 1) : Len(x) = n - 1},
                              o \in CommandOutcomes}

\* the loop after the command at place i: the next command, or the return
\* when the loop broke or the commands are used up
BatchNext(b, results, broke) ==
    IF broke \/ b.i + 1 > Len(b.commands)
    THEN [b EXCEPT !.pc = "returned", !.results = results]
    ELSE [b EXCEPT !.i = @ + 1, !.results = results]

\* (variant: the loop body without its catch block)
batchBodyNoCatch(b, outcome) ==
    IF outcome = "throws"
    THEN [b EXCEPT !.pc = "threw"]
    ELSE BatchNext(b, Append(b.results, [success |-> outcome = "success",
                                         command |-> b.i, from |-> "try"]),
                   outcome # "success" /\ ~b.continueOnError)

\* one iteration of the for loop: the try block pushes the result of
\* executeWithRetry and breaks on a failed one unless continueOnError, the
\* catch block pushes a failed result and breaks unless continueOnError
batchBody(b, outcome) ==
    IF outcome = "throws"
    THEN BatchNext(b, Append(b.results, [success |-> FALSE, command |-> b.i,
                                         from |-> "catch"]),
                   ~b.continueOnError)
    ELSE BatchNext(b, Append(b.results, [success |-> outcome = "success",
                                         command |-> b.i, from |-> "try"]),
                   outcome # "success" /\ ~b.continueOnError)

\* executeBatch(commands, {continueOnError}) is called: an empty array is
\* returned on at once, else the first executeWithRetry is awaited
executeBatch(commands, continueOnError) ==
    /\ batch.pc = "idle"
    /\ batch' = [IdleBatch EXCEPT
                   !.pc = IF commands = <<>> THEN "returned" ELSE "running",
                   !.commands = commands,
                   !.continueOnError = continueOnError,
                   !.i = IF commands = <<>> THEN 0 ELSE 1]
    /\ UNCHANGED <<runs, retry, now, processingSessions, msgs, sessVars,
                   callVars, progVars, adds>>

\* the awaited executeWithRetry settles
BatchSettled ==
    /\ batch.pc = "running"
    /\ batch' = batchBody(batch, batch.commands[batch.i])
    /\ UNCHANGED <<runs, retry, now, processingSessions, msgs, sessVars,
                   callVars, progVars, adds>>

NextBatch ==
    \/ \E commands \in Batches(MaxBatch), continueOnError \in BOOLEAN :
          executeBatch(commands, continueOnError)
    \/ BatchSettled

SpecBatch == Init /\ [][NextBatch]_vars

\* the commands that failed: a result without success, or an exception
Failing(commands) == {i \in DOMAIN commands : commands[i] # "success"}

\* the number of commands run without continueOnError: up to and including
\* the first that fails
PrefixRun(commands) ==
    IF Failing(commands) = {} THEN Len(commands)
    ELSE CHOOSE i \in Failing(commands) : \A j \in Failing(commands) : i <= j

\* C39: executeBatch never throws; it runs the commands in order, one at a
\* time, and its results are one per command run, in that order, an
\* exception counted as a failed result; without continueOnError the
\* commands run are those up to and including the first that fails, with
\* continueOnError all of them.
C39_BatchResults ==
    /\ [](batch.pc # "threw")
    /\ [](batch.pc = "running" => batch.i = Len(batch.results) + 1)
    /\ [](batch.pc = "returned" =>
            /\ Len(batch.results) =
                  IF batch.continueOnError THEN Len(batch.commands)
                  ELSE PrefixRun(batch.commands)
            /\ \A i \in DOMAIN batch.results :
                  /\ batch.results[i].command = i
                  /\ batch.results[i].success = (batch.commands[i] = "success")
                  /\ batch.results[i].from = "catch" <=>
                        batch.commands[i] = "throws")

\* a batch without continueOnError has stopped at an exception after a
\* success
C39_Witness ==
    /\ batch.pc = "returned"
    /\ ~batch.continueOnError
    /\ batch.commands = <<"success", "throws", "success">>
    /\ Len(batch.results) = 2
    /\ batch.results[2].from = "catch"

====
